---- MODULE Spec2Model ----
(***************************************************************************)
(* Word document assembly pipeline of the quote generator:                 *)
(*   - image marker resolver      (services/word/images.py)                *)
(*   - sanitizer / subdoc builder / template renderer                      *)
(*                                (services/word/sanitize.py, handler.py)  *)
(*   - rich-text normalizer       (services/word/quill_convert.py,         *)
(*                                 services/quill_to_word.py)              *)
(*   - list style synchronisation (services/word/html_shim.py)             *)
(* Each component has its own variables, its own initial predicate and its *)
(* own specification; the variables of the other components stay idle.    *)
(***************************************************************************)
EXTENDS Integers, Sequences, FiniteSets, TLC

None == "None"

(***************************************************************************)
(* State                                                                   *)
(***************************************************************************)
\* image marker resolver
VARIABLES
    imgContext,  \* image key -> what the key leads to (see FileKinds)
    pkgDoc,      \* docx_path: paragraphs of word/document.xml
    pkgRels,     \* docx_path: word/_rels/document.xml.rels
    pkgMedia,    \* docx_path: file names under word/media/
    workdir,     \* the scratch directory exists
    wDoc,        \* doc_root, the parsed document being edited in memory
    wRels,       \* scratch copy of document.xml.rels (rewritten on every add)
    wMedia,      \* scratch copy of word/media/
    changed,     \* local flag of replace_image_markers_xml
    imgIdx,      \* position of the paragraph loop
    imgPc,       \* "idle" | "loop" | "cleanup" | "done" | "raised"
    imgLog       \* log records written by the resolver

imgVars == <<imgContext, pkgDoc, pkgRels, pkgMedia, workdir, wDoc, wRels,
             wMedia, changed, imgIdx, imgPc, imgLog>>

\* rich-text normalizer
VARIABLES
    richIn,    \* the value to normalize: a Delta or an HTML string
    richOut,   \* to_semantic_html(richIn)
    richOut2,  \* to_semantic_html(richOut)
    q2wOut,    \* quill_to_word.delta_to_html(richIn)
    richPc,    \* "in" | "once" | "twice"
    q2wPc,     \* "in" | "done"
    bsOut,     \* quill_lists.normalize_quill_lists(richIn)
    bsOut2,    \* ... applied to bsOut
    bsPc       \* "in" | "once" | "twice"

richVars == <<richIn, richOut, richOut2, q2wOut, richPc, q2wPc, bsOut, bsOut2, bsPc>>

\* render_document
VARIABLES
    rdContext,          \* the raw context handed to render_document
    placeholder,        \* the dotted path of the template's {{ ... }}
    templateIsFile,     \* os.path.isfile(self.template_path)
    sanitized_context,  \* step 1
    context_for_tpl,    \* step 3: what the template renderer is handed
    rendered,           \* step 4: what the placeholder became
    rdPc                \* "start" | "sanitized" | "loaded" | "transformed" |
                        \* "rendered" | "raised_load" | "raised_render"

rdVars == <<rdContext, placeholder, templateIsFile, sanitized_context,
            context_for_tpl, rendered, rdPc>>

\* add_html_wrapper
VARIABLES
    shimParas,      \* the paragraphs the conversion inserted
    shimAnchor,     \* the paragraph before the first inserted one
    shimHasAnchor,  \* FALSE when there is no such paragraph
    shimStyles,     \* doc.styles
    shimIdx,        \* position of the style loop
    shimLog,        \* levels of the records logged
    shimPc          \* "sync" | "done"

shimVars == <<shimParas, shimAnchor, shimHasAnchor, shimStyles, shimIdx, shimLog, shimPc>>

\* render_document, files
VARIABLES
    runPc,          \* where each handler stands in render_document
    runStatus,      \* the phases each handler has announced with send_status
    runRenders,     \* how often each handler has called self.tpl.render
    runTpl,         \* the package self.tpl holds
    runDoc,         \* the package self.doc holds
    runWorkdir,     \* the resolver's scratch directory of each handler exists
    runUnzipped,    \* the package unzipped in it
    runNoimage,     \* the file at "noimage - <name>" of each handler
    runOutput,      \* the file at output_path of each handler
    runCrashedAt,   \* where a handler stood when its process was killed
    temp_rendered,  \* the file <tempdir>/temp_rendered.docx
    docx_out_tmp    \* the file <tempdir>/docx_out_tmp.docx

runVars == <<runPc, runStatus, runRenders, runTpl, runDoc, runWorkdir, runUnzipped,
             runNoimage, runOutput, runCrashedAt, temp_rendered, docx_out_tmp>>

\* image sizing
VARIABLES
    szKey,      \* short_key
    szPx,       \* img.size: <<w_px, h_px>>
    szDpiInfo,  \* img.info.get("dpi")
    szMm,       \* <<w_mm, h_mm>> as _scaled_mm returns them
    szEmu,      \* <<cx, cy>>
    szPc

szVars == <<szKey, szPx, szDpiInfo, szMm, szEmu, szPc>>

\* flattening of repeatable groups
VARIABLES
    flIn,    \* the nested mapping
    flFlat,  \* the flat dict made of it
    flOut,   \* the nested mapping made of the flat dict
    flVia,   \* the functions that were called
    flPc

flVars == <<flIn, flFlat, flOut, flVia, flPc>>

\* list levels of template placeholders
VARIABLES
    lvTemplate,  \* the paragraphs of the template that hold a placeholder
    lvDetails,   \* details
    lvLevels,    \* marker_levels
    lvPc

lvVars == <<lvTemplate, lvDetails, lvLevels, lvPc>>

\* pagination pass
VARIABLES
    pgDisk,          \* the paragraphs of the document at doc_path
    pgDoc,           \* the paragraphs of the document open in Word
    pgOpen,          \* Word holds the document open
    inserted_break,
    pass_count,
    pgI,             \* i
    pgErrors,        \* how many com_error were raised
    pgInserted,      \* how many breaks the pass under way inserted
    pgLog,           \* the passes that ended: breaks inserted, ended by com_error
    pgPc

pgVars == <<pgDisk, pgDoc, pgOpen, inserted_break, pass_count, pgI, pgErrors,
            pgInserted, pgLog, pgPc>>

\* the quote
VARIABLES
    qHeap,           \* the Quote objects, named by their place
    quotes,          \* QuoteModel.quotes: key -> name of a Quote, in insertion order
    quote,           \* QuoteViewModel.quote: name of a Quote
    qFile,           \* the XML file save_to_xml wrote
    qSave,           \* what save_quote was called on
    qReport,         \* what open_quote returned
    qContext,        \* what submit_quote handed to render_document
    qLast,           \* the last call of the bridge
    qCalls

qtVars == <<qHeap, quotes, quote, qFile, qSave, qReport, qContext, qLast, qCalls>>

\* the connection pool
VARIABLES
    connections,           \* ConnectionPool.connections
    in_use,                \* the connections whose in_use is True
    connection_semaphore,  \* the permits left
    plLock,                \* the thread in `with self.lock`
    plPc,
    plHeld,                \* the connection a thread was handed
    plClosed,              \* the connections close() was called on
    plCreated,             \* how many connections were created
    plClosing,             \* where close_all_connections stands
    plLost                 \* how often a permit was taken and not given back

plVars == <<connections, in_use, connection_semaphore, plLock, plPc, plHeld, plClosed,
            plCreated, plClosing, plLost>>

VARIABLES sync_queue, running, sync_thread, syRecord, syStatus, syCaller, syCalls
syVars == <<sync_queue, running, sync_thread, syRecord, syStatus, syCaller, syCalls>>

vars == <<imgVars, richVars, rdVars, shimVars, runVars, szVars, flVars, lvVars, pgVars, qtVars, plVars, syVars>>

\* what the actions of one component leave alone
notImg == <<richVars, rdVars, shimVars, runVars, szVars, flVars, lvVars, pgVars, qtVars, plVars, syVars>>
notRich == <<imgVars, rdVars, shimVars, runVars, szVars, flVars, lvVars, pgVars, qtVars, plVars, syVars>>
notRd == <<imgVars, richVars, shimVars, runVars, szVars, flVars, lvVars, pgVars, qtVars, plVars, syVars>>
notShim == <<imgVars, richVars, rdVars, runVars, szVars, flVars, lvVars, pgVars, qtVars, plVars, syVars>>
notSz == <<imgVars, richVars, rdVars, shimVars, runVars, flVars, lvVars, pgVars, qtVars, plVars, syVars>>
notFl == <<imgVars, richVars, rdVars, shimVars, runVars, szVars, lvVars, pgVars, qtVars, plVars, syVars>>
notLv == <<imgVars, richVars, rdVars, shimVars, runVars, szVars, flVars, pgVars, qtVars, plVars, syVars>>
notPl == <<imgVars, richVars, rdVars, shimVars, runVars, szVars, flVars, lvVars, pgVars, qtVars, syVars>>
notQt == <<imgVars, richVars, rdVars, shimVars, runVars, szVars, flVars, lvVars, pgVars, plVars, syVars>>
notPg == <<imgVars, richVars, rdVars, shimVars, runVars, szVars, flVars, lvVars, qtVars, plVars, syVars>>
notRun == <<imgVars, richVars, rdVars, shimVars, szVars, flVars, lvVars, pgVars, qtVars, plVars, syVars>>
notSy == <<imgVars, richVars, rdVars, shimVars, runVars, szVars, flVars, lvVars, pgVars, qtVars, plVars>>
\* ------------------------------------------------------------------ bounds
\* paragraphs in word/document.xml of the rendered package
MaxParas == 3

(***************************************************************************)
(* IMAGE MARKER RESOLVER  (services/word/images.py)                        *)
(***************************************************************************)

\* keys that image markers name
ImageKeys == {"titleImage", "customercontact.logo"}

\* What a key leads to: no string in the context ("nopath"), a path that is
\* no existing file ("nofile"), an existing file that PIL cannot identify
\* ("garbage"), an existing readable image ("image").
FileKinds == {"nopath", "nofile", "garbage", "image"}

TextPara == [kind |-> "text", key |-> "", rid |-> 0]
MarkerPara(k) == [kind |-> "marker", key |-> k, rid |-> 0]
DrawingPara(r) == [kind |-> "drawing", key |-> "", rid |-> r]

Rel(id, target) == [Id |-> id, Target |-> target]

\* IMAGE_MARKER_RE.search(_para_text(p)): the key of the first marker, or None
marker_key(p) == IF p.kind = "marker" THEN p.key ELSE None

\* _get_from_context: the string the key resolves to, or None.  A path is
\* identified with the key that leads to it.
get_from_context(context, key) ==
    IF context[key] = "nopath" THEN None ELSE key

\* os.path.isfile(image_path)
isfile(context, path) == context[path] \in {"garbage", "image"}

\* the guard of lines 242-244: `not image_path or not os.path.isfile(image_path)`
image_missing_m(context, key) == get_from_context(context, key) = None
image_missing(context, key) ==
    LET image_path == get_from_context(context, key)
    IN  IF image_path = None THEN TRUE ELSE ~isfile(context, image_path)

\* _next_rel_id: the lowest rId<i>, i >= 1, not among the existing Ids
next_rel_id_m(rels) == Cardinality(rels) + 1
next_rel_id(rels) ==
    LET existing == {r.Id : r \in rels}
    IN  CHOOSE i \in 1..(Cardinality(rels) + 1) :
            /\ i \notin existing
            /\ \A j \in 1..(i - 1) : j \in existing

\* _add_image_relationship: the rels part with one more Relationship appended,
\* and the Id it was given
add_image_relationship_m(rels, target) ==
    [rels |-> rels, rid |-> next_rel_id(rels)]
add_image_relationship(rels, target) ==
    LET rid == next_rel_id(rels)
    IN  [rels |-> rels \cup {Rel(rid, target)}, rid |-> rid]

\* uuid.uuid4().hex + ext: a file name no media file has yet
new_target_name(media) ==
    CHOOSE n \in 1..(Cardinality(media) + 1) : n \notin media

\* _replace_marker_para_with_image: the paragraph keeps one run with a drawing
replace_marker_para_with_image(doc, i, rid) ==
    [doc EXCEPT ![i] = DrawingPara(rid)]

\* Image.open(image_path) in _scaled_mm succeeds
image_readable(context, path) == context[path] = "image"

\* ---- initial packages: consistent rendered packages ----
InitialRels == { {Rel(1, 1)}, {Rel(1, 1), Rel(3, 2)} }
ParaChoices == {TextPara, DrawingPara(1)} \cup {MarkerPara(k) : k \in ImageKeys}
Docs == UNION { [1..n -> ParaChoices] : n \in 1..MaxParas }

ImgIdle ==
    /\ imgContext = [k \in ImageKeys |-> "nopath"]
    /\ pkgDoc = <<>>
    /\ pkgRels = {}
    /\ pkgMedia = {}
    /\ workdir = FALSE
    /\ wDoc = <<>>
    /\ wRels = {}
    /\ wMedia = {}
    /\ changed = FALSE
    /\ imgIdx = 0
    /\ imgPc = "off"
    /\ imgLog = {}

ImgInit ==
    /\ imgContext \in [ImageKeys -> FileKinds]
    /\ pkgDoc \in Docs
    /\ pkgRels \in InitialRels
    /\ pkgMedia = {r.Target : r \in pkgRels}
    /\ workdir = FALSE
    /\ wDoc = <<>>
    /\ wRels = {}
    /\ wMedia = {}
    /\ changed = FALSE
    /\ imgIdx = 0
    /\ imgPc = "idle"
    /\ imgLog = {}

\* lines 211-230: scratch directory, copy, unzip, parse document.xml
ImgOpen ==
    /\ imgPc = "idle"
    /\ workdir' = TRUE
    /\ wDoc' = pkgDoc
    /\ wRels' = pkgRels
    /\ wMedia' = pkgMedia
    /\ changed' = FALSE
    /\ imgIdx' = 1
    /\ imgPc' = "loop"
    /\ UNCHANGED <<imgContext, pkgDoc, pkgRels, pkgMedia, imgLog>>
    /\ UNCHANGED notImg

InLoop == imgPc = "loop" /\ imgIdx \in 1..Len(wDoc)

\* lines 233-236: no marker in the paragraph
ImgNoMarker ==
    /\ InLoop
    /\ marker_key(wDoc[imgIdx]) = None
    /\ imgIdx' = imgIdx + 1
    /\ UNCHANGED <<imgContext, pkgDoc, pkgRels, pkgMedia, workdir, wDoc, wRels,
                   wMedia, changed, imgPc, imgLog>>
    /\ UNCHANGED notImg

\* lines 239-244: the key resolves to nothing usable: log an error, continue
ImgMissing ==
    /\ InLoop
    /\ marker_key(wDoc[imgIdx]) # None
    /\ image_missing(imgContext, marker_key(wDoc[imgIdx]))
    /\ imgLog' = imgLog \cup {[level |-> "error", para |-> imgIdx]}
    /\ imgIdx' = imgIdx + 1
    /\ UNCHANGED <<imgContext, pkgDoc, pkgRels, pkgMedia, workdir, wDoc, wRels,
                   wMedia, changed, imgPc>>
    /\ UNCHANGED notImg

\* lines 246-268: copy into word/media, add the relationship, measure the
\* image, replace the paragraph.  shutil.copy2 raises when the source is no
\* file; Image.open raises (after the copy and the relationship were written
\* to the scratch directory) when the file is no image.  Neither is caught.
ImgInsert ==
    /\ InLoop
    /\ marker_key(wDoc[imgIdx]) # None
    /\ ~image_missing(imgContext, marker_key(wDoc[imgIdx]))
    /\ LET image_path == get_from_context(imgContext, marker_key(wDoc[imgIdx]))
           target == new_target_name(wMedia)
           added == add_image_relationship(wRels, target)
       IN  IF ~isfile(imgContext, image_path)
           THEN /\ imgPc' = "raised"
                /\ UNCHANGED <<wDoc, wRels, wMedia, changed, imgIdx, imgLog>>
           ELSE IF ~image_readable(imgContext, image_path)
           THEN /\ imgPc' = "raised"
                /\ wMedia' = wMedia \cup {target}
                /\ wRels' = added.rels
                /\ UNCHANGED <<wDoc, changed, imgIdx, imgLog>>
           ELSE /\ wMedia' = wMedia \cup {target}
                /\ wRels' = added.rels
                /\ wDoc' = replace_marker_para_with_image(wDoc, imgIdx, added.rid)
                /\ imgLog' = imgLog \cup {[level |-> "info", para |-> imgIdx]}
                /\ changed' = TRUE
                /\ imgIdx' = imgIdx + 1
                /\ imgPc' = "loop"
    /\ UNCHANGED <<imgContext, pkgDoc, pkgRels, pkgMedia, workdir>>
    /\ UNCHANGED notImg

\* lines 270-283: rewrite document.xml, zip the scratch tree, copy it over
\* docx_path
ImgWriteBack ==
    /\ imgPc = "loop"
    /\ imgIdx > Len(wDoc)
    /\ changed
    /\ pkgDoc' = wDoc
    /\ pkgRels' = wRels
    /\ pkgMedia' = wMedia
    /\ imgPc' = "cleanup"
    /\ UNCHANGED <<imgContext, workdir, wDoc, wRels, wMedia, changed, imgIdx,
                   imgLog>>
    /\ UNCHANGED notImg

\* line 270 with changed = False: the package is left alone
ImgNoChange ==
    /\ imgPc = "loop"
    /\ imgIdx > Len(wDoc)
    /\ ~changed
    /\ imgPc' = "cleanup"
    /\ UNCHANGED <<imgContext, pkgDoc, pkgRels, pkgMedia, workdir, wDoc, wRels,
                   wMedia, changed, imgIdx, imgLog>>
    /\ UNCHANGED notImg

\* line 285: shutil.rmtree(workdir)
ImgCleanup ==
    /\ imgPc = "cleanup"
    /\ workdir' = FALSE
    /\ imgPc' = "done"
    /\ UNCHANGED <<imgContext, pkgDoc, pkgRels, pkgMedia, wDoc, wRels, wMedia,
                   changed, imgIdx, imgLog>>
    /\ UNCHANGED notImg

ImgNext ==
    \/ ImgOpen
    \/ ImgNoMarker
    \/ ImgMissing
    \/ ImgInsert
    \/ ImgWriteBack
    \/ ImgNoChange
    \/ ImgCleanup

(***************************************************************************)
(* RICH-TEXT NORMALIZER  (services/word/quill_convert.py,                  *)
(*                        services/quill_to_word.py)                       *)
(* A string is a sequence of tokens: a tag, a word of text, a newline, or  *)
(* an ampersand with the escapes applied to it so far.                     *)
(***************************************************************************)

\* ------------------------------------------------------------------ bounds
\* items of a Quill list, deepest ql-indent-N / Delta indent, ops of a Delta
MaxItems == 3
MaxIndent == 2
MaxOps == 2

Tok(k, d) == [k |-> k, d |-> d]
UL == Tok("ul", 0)
ULc == Tok("/ul", 0)
OL == Tok("ol", 0)
OLc == Tok("/ol", 0)
LIc == Tok("/li", 0)
Po == Tok("p", 0)
Pc == Tok("/p", 0)
Bo == Tok("b", 0)
Bc == Tok("/b", 0)
BR == Tok("br", 0)
NL == Tok("nl", 0)
NBSP == Tok("nbsp", 0)
\* <li>, or <li class="ql-indent-d"> when d >= 0
LI(d) == Tok("li", d)
\* words of text: 1 = "A", 2 = "A.1", 3 = "[embed]"
Word(n) == Tok("txt", n)
\* the text "ql-indent-2" written in an item
QLText == Tok("qltxt", 0)
\* "&" followed by d times "amp;"
Amp(d) == Tok("amp", d)

TagKinds == {"ul", "/ul", "ol", "/ol", "li", "/li", "p", "/p", "b", "/b", "br"}
IsTag(t) == t.k \in TagKinds

Repeat(t, n) == [i \in 1..n |-> t]
Max2(a, b) == IF a >= b THEN a ELSE b
Last(s) == s[Len(s)]

\* str.find for a tag: the first index >= pos holding a token of that kind,
\* 0 when there is none
Find(html, pos, kind) ==
    LET hits == {i \in pos..Len(html) : html[i].k = kind}
    IN  IF hits = {} THEN 0 ELSE CHOOSE i \in hits : \A j \in hits : i <= j

\* _esc: & becomes &amp; (words hold no < or >)
esc(s) == [i \in 1..Len(s) |-> IF s[i].k = "amp" THEN Amp(s[i].d + 1) ELSE s[i]]

\* _strip_tags: drop every tag, keep the text
strip_tags(s) == SelectSeq(s, LAMBDA t : ~IsTag(t))

\* "ql-indent-" in s: in a class of a tag, or in the text
has_ql_indent(s) ==
    \E i \in 1..Len(s) : (s[i].k = "li" /\ s[i].d >= 0) \/ s[i].k = "qltxt"

\* _normalize_quill_html_lists, lines 93-115: every <li ...> ... </li> in
\* order, the body being all that stands before the next </li>
RECURSIVE extract_items(_, _)
extract_items(html, pos) ==
    LET li_start == Find(html, pos, "li")
        close == Find(html, li_start + 1, "/li")
    IN  IF li_start = 0 \/ close = 0 THEN <<>>
        ELSE <<[depth |-> Max2(0, html[li_start].d),
                text |-> strip_tags(SubSeq(html, li_start + 1, close - 1))]>>
             \o extract_items(html, close + 1)

\* lines 140-158: one turn of the loop over the items
nz_item(st, item) ==
    LET depth == item.depth
        cur == st.current_depth
        moved ==
            IF depth > cur
            THEN [out |-> st.out \o Repeat(UL, depth - cur),
                  current_depth |-> depth,
                  open_lists |-> st.open_lists + (depth - cur)]
            ELSE IF depth < cur
            THEN [out |-> st.out \o <<LIc>> \o Repeat(ULc, cur - depth),
                  current_depth |-> depth,
                  open_lists |-> st.open_lists - (cur - depth)]
            ELSE IF st.out # <<>> /\ Last(st.out) # UL
            THEN [st EXCEPT !.out = st.out \o <<LIc>>]
            ELSE st
    IN  [moved EXCEPT !.out = moved.out \o <<LI(-1)>> \o esc(item.text)]

RECURSIVE nz_loop(_, _)
nz_loop(st, items) ==
    IF items = <<>> THEN st ELSE nz_loop(nz_item(st, Head(items)), Tail(items))

\* lines 160-163: close_li(), then `while open_lists > 0: close_list();
\* open_lists -= 1`, where close_list() has already taken one off
nz_close(st) == st.out \o <<LIc>> \o Repeat(ULc, (st.open_lists + 1) \div 2)

normalize_quill_html_lists(html) ==
    LET items == extract_items(html, 1)
    IN  IF items = <<>> THEN html
        ELSE nz_close(nz_loop([out |-> <<>>, current_depth |-> -1,
                               open_lists |-> 0], items))

\* ---- Deltas ----
Attrs(l, n) == [list |-> l, indent |-> n]
Op(ins, a) == [insert |-> ins, attributes |-> a]
\* an embed: `insert` is a mapping, not a string
Embed == Tok("embed", 0)
IsEmbed(op) == op.insert = <<Embed>>

\* str.split("\n")
RECURSIVE split_nl(_)
split_nl(s) ==
    LET i == Find(s, 1, "nl")
    IN  IF i = 0 THEN <<s>>
        ELSE <<SubSeq(s, 1, i - 1)>> \o split_nl(SubSeq(s, i + 1, Len(s)))

RECURSIVE Concat(_)
Concat(ss) == IF ss = <<>> THEN <<>> ELSE Head(ss) \o Concat(Tail(ss))

\* quill_convert.delta_to_html, lines 68-75: the parts of one insert
RECURSIVE qc_parts(_, _)
qc_parts(st, parts) ==
    IF parts = <<>> THEN st
    ELSE IF Len(parts) > 1
    THEN qc_parts([paras |-> st.paras \o <<Po>>
                                \o esc(Concat(Append(st.buf, Head(parts))))
                                \o <<Pc>>,
                   buf |-> <<>>], Tail(parts))
    ELSE [st EXCEPT !.buf = Append(st.buf, Head(parts))]

RECURSIVE qc_ops(_, _)
qc_ops(st, ops) ==
    IF ops = <<>> THEN st
    ELSE qc_ops(IF IsEmbed(Head(ops)) THEN st
                ELSE qc_parts(st, split_nl(Head(ops).insert)),
                Tail(ops))

\* quill_convert.delta_to_html: every line a paragraph, attributes unread;
\* `if buf:` is true of a list holding one empty part
delta_to_html(ops) ==
    LET st == qc_ops([paras |-> <<>>, buf |-> <<>>], ops)
    IN  IF st.buf # <<>>
        THEN st.paras \o <<Po>> \o esc(Concat(st.buf)) \o <<Pc>>
        ELSE st.paras

\* to_semantic_html
to_semantic_html(value) ==
    IF value.t = "delta" THEN delta_to_html(value.ops)
    ELSE IF has_ql_indent(value.s) THEN normalize_quill_html_lists(value.s)
    ELSE value.s

\* ---- services/quill_to_word.py: delta_to_html ----
\* lines 140-145: the parts of one insert; a part after a newline first
\* flushes the line with the attributes held at that moment
RECURSIVE q2w_parts(_, _, _, _)
q2w_parts(st, parts, attributes, i) ==
    IF i > Len(parts) THEN st
    ELSE LET flushed ==
                 IF i > 1
                 THEN [st EXCEPT !.lines = Append(st.lines,
                                     [text |-> st.buffer_text,
                                      attrs |-> st.buffer_attrs]),
                                 !.buffer_text = <<>>]
                 ELSE st
         IN  q2w_parts([flushed EXCEPT
                            !.buffer_attrs = attributes,
                            !.buffer_text = flushed.buffer_text \o parts[i]],
                       parts, attributes, i + 1)

RECURSIVE q2w_ops(_, _)
q2w_ops(st, ops) ==
    IF ops = <<>> THEN st
    ELSE LET op == Head(ops)
         IN  q2w_ops(IF IsEmbed(op)
                     THEN [st EXCEPT !.buffer_text = st.buffer_text \o <<Word(3)>>]
                     ELSE q2w_parts(st, split_nl(op.insert), op.attributes, 1),
                     Tail(ops))

\* lines 115-148: the lines of the Delta with their attributes
q2w_lines(ops) ==
    LET st == q2w_ops([lines |-> <<>>, buffer_text |-> <<>>,
                       buffer_attrs |-> Attrs("none", 0)], ops)
    IN  IF st.buffer_text # <<>>
        THEN Append(st.lines, [text |-> st.buffer_text, attrs |-> st.buffer_attrs])
        ELSE st.lines

ListTag(l) == IF l = "ordered" THEN OL ELSE UL
CloseTag(t) == IF t = OL THEN OLc ELSE ULc

\* lines 183-201: one line; attrs["indent"] is not read
q2w_line(st, line) ==
    LET lst == line.attrs.list
    IN  IF lst \in {"ordered", "bullet"}
        THEN LET desired == ListTag(lst)
                 opened ==
                     IF st.open = <<desired>> THEN st.parts
                     ELSE st.parts
                          \o (IF st.open # <<>> THEN <<<<CloseTag(st.open[1])>>>> ELSE <<>>)
                          \o <<<<desired>>>>
             IN  [parts |-> Append(opened, <<LI(-1)>> \o esc(line.text) \o <<LIc>>),
                  open |-> <<desired>>]
        ELSE [parts |-> (st.parts
                         \o (IF st.open # <<>> THEN <<<<CloseTag(st.open[1])>>>> ELSE <<>>))
                        \o << <<Po>>
                              \o esc(IF line.text = <<>> THEN <<NBSP>> ELSE line.text)
                              \o <<Pc>> >>,
              open |-> <<>>]

RECURSIVE q2w_build(_, _)
q2w_build(st, lines) ==
    IF lines = <<>> THEN st ELSE q2w_build(q2w_line(st, Head(lines)), Tail(lines))

\* "\n".join(html_parts)
RECURSIVE join_nl(_)
join_nl(parts) ==
    IF parts = <<>> THEN <<>>
    ELSE IF Len(parts) = 1 THEN parts[1]
    ELSE parts[1] \o <<NL>> \o join_nl(Tail(parts))

q2w_delta_to_html(ops) ==
    LET st == q2w_build([parts |-> <<>>, open |-> <<>>], q2w_lines(ops))
    IN  join_nl(IF st.open # <<>>
                THEN Append(st.parts, <<CloseTag(st.open[1])>>)
                ELSE st.parts)

(***************************************************************************)
(* utilities/quill_lists.py: the BeautifulSoup normalizer.  The rebuilt    *)
(* list is a tree: a sequence of nodes, each naming its parent; a node is  *)
(* appended to its parent when it is made, so siblings stand in the order  *)
(* of their numbers.                                                       *)
(***************************************************************************)
Node(name, parent, text) == [name |-> name, parent |-> parent, text |-> text]

\* str(soup) of text that html.parser has read: an entity is decoded on the
\* way in, "&" is written "&amp;" on the way out
bs_text(s) ==
    [i \in 1..Len(s) |-> IF s[i].k = "amp" THEN Amp(Max2(s[i].d, 1)) ELSE s[i]]

\* _indent_of: the N of a ql-indent-N class, 0 without one
indent_of(li) == Max2(0, li.d)

\* the <li> children of a flat list with their own contents
RECURSIVE bs_items(_, _)
bs_items(html, pos) ==
    LET li_start == Find(html, pos, "li")
        close == Find(html, li_start + 1, "/li")
    IN  IF li_start = 0 \/ close = 0 THEN <<>>
        ELSE <<[level |-> indent_of(html[li_start]),
                contents |-> SubSeq(html, li_start + 1, close - 1)]>>
             \o bs_items(html, close + 1)

\* lines 65-66: while stack[-1][0] > level: stack.pop()
RECURSIVE bs_pop(_, _)
bs_pop(stack, level) ==
    IF stack # <<>> /\ Last(stack).level > level
    THEN bs_pop(SubSeq(stack, 1, Len(stack) - 1), level)
    ELSE stack

\* lines 67-78: while stack[-1][0] < level: an inner list under the last
\* <li> recorded for the level on top, a stub <li> when none is recorded
RECURSIVE bs_deepen(_, _)
bs_deepen(st, level) ==
    IF st.stack # <<>> /\ Last(st.stack).level < level
    THEN LET top == Last(st.stack)
             needStub == st.last_li_for_level[top.level] = 0
             nodes1 == IF needStub
                       THEN Append(st.nodes, Node("li", top.node, <<>>))
                       ELSE st.nodes
             last1 == IF needStub
                      THEN [st.last_li_for_level EXCEPT ![top.level] = Len(nodes1)]
                      ELSE st.last_li_for_level
             parent_li == last1[top.level]
             nodes2 == Append(nodes1, Node("ul", parent_li, <<>>))
         IN  bs_deepen([nodes |-> nodes2,
                        stack |-> Append(st.stack,
                                         [level |-> top.level + 1, node |-> Len(nodes2)]),
                        last_li_for_level |-> last1], level)
    ELSE st

\* lines 60-86: one turn of the loop over the items
bs_item(st, li) ==
    LET popped == [st EXCEPT !.stack = bs_pop(st.stack, li.level)]
        deep == bs_deepen(popped, li.level)
        nodes == Append(deep.nodes, Node("li", Last(deep.stack).node, li.contents))
    IN  [deep EXCEPT !.nodes = nodes,
                     !.last_li_for_level[li.level] = Len(nodes)]

RECURSIVE bs_loop(_, _)
bs_loop(st, items) ==
    IF items = <<>> THEN st ELSE bs_loop(bs_item(st, Head(items)), Tail(items))

\* _bs_normalize_list: the nodes of the new list, node 1 being its root
bs_normalize_list(items) ==
    bs_loop([nodes |-> <<Node("ul", 0, <<>>)>>,
             stack |-> <<[level |-> 0, node |-> 1]>>,
             last_li_for_level |-> [l \in 0..MaxIndent |-> 0]], items).nodes

\* str() of a node of the tree
RECURSIVE bs_str(_, _)
RECURSIVE bs_children(_, _, _)
bs_children(nodes, id, k) ==
    IF k > Len(nodes) THEN <<>>
    ELSE (IF nodes[k].parent = id THEN bs_str(nodes, k) ELSE <<>>)
         \o bs_children(nodes, id, k + 1)
bs_str(nodes, id) ==
    IF nodes[id].name = "ul"
    THEN <<UL>> \o bs_children(nodes, id, id + 1) \o <<ULc>>
    ELSE <<LI(-1)>> \o bs_text(nodes[id].text) \o bs_children(nodes, id, id + 1)
         \o <<LIc>>

\* line 185: some <li> child carries a ql-indent-N class
has_indent_class(html) == \E i \in 1..Len(html) : html[i].k = "li" /\ html[i].d >= 0

\* normalize_quill_lists, for an html that holds one flat list or no list
\* with ql-indent classes at all: a list with such classes is rebuilt, and
\* the document is written out again
normalize_quill_lists(html) ==
    IF html = <<>> THEN html
    ELSE IF has_indent_class(html)
    THEN bs_str(bs_normalize_list(bs_items(html, 1)), 1)
    ELSE bs_text(html)

\* ---- inputs ----
HtmlValue(s) == [t |-> "html", s |-> s, ops |-> <<>>]
DeltaValue(ops) == [t |-> "delta", s |-> <<>>, ops |-> ops]

ItemTexts == { <<Word(1)>>, <<QLText>>, <<Bo, Word(1), Bc, Amp(0)>> }
ItemChoices == { <<LI(d)>> \o x \o <<LIc>> : d \in -1..MaxIndent, x \in ItemTexts }
QuillHtmls ==
    { <<UL>> \o Concat(items) \o <<ULc>> :
        items \in UNION { [1..n -> ItemChoices] : n \in 1..MaxItems } }

Inserts == { <<Word(1), NL>>, <<Word(2), NL>>, <<Word(1)>>, <<NL>> }
OpChoices ==
    { Op(ins, Attrs(l, n)) : ins \in Inserts, l \in {"none", "bullet", "ordered"},
                             n \in 0..MaxIndent }
    \cup { Op(<<Embed>>, Attrs("none", 0)) }
Deltas == UNION { [1..n -> OpChoices] : n \in 1..MaxOps }

RichIdle ==
    /\ richIn = HtmlValue(<<>>)
    /\ richOut = <<>>
    /\ richOut2 = <<>>
    /\ q2wOut = <<>>
    /\ bsOut = <<>>
    /\ bsOut2 = <<>>
    /\ richPc = "off"
    /\ q2wPc = "off"
    /\ bsPc = "off"

RichInit ==
    /\ richIn \in {HtmlValue(s) : s \in QuillHtmls} \cup {DeltaValue(o) : o \in Deltas}
    /\ richOut = <<>>
    /\ richOut2 = <<>>
    /\ q2wOut = <<>>
    /\ bsOut = <<>>
    /\ bsOut2 = <<>>
    /\ richPc = "in"
    /\ q2wPc = "in"
    /\ bsPc = "in"

\* handler._to_subdoc_html: html = to_semantic_html(value)
RichNormalize ==
    /\ richPc = "in"
    /\ richOut' = to_semantic_html(richIn)
    /\ richPc' = "once"
    /\ UNCHANGED <<richIn, richOut2, q2wOut, q2wPc, bsOut, bsOut2, bsPc>>
    /\ UNCHANGED notRich

\* the normalizer applied to its own output
RichNormalizeAgain ==
    /\ richPc = "once"
    /\ richOut2' = to_semantic_html(HtmlValue(richOut))
    /\ richPc' = "twice"
    /\ UNCHANGED <<richIn, richOut, q2wOut, q2wPc, bsOut, bsOut2, bsPc>>
    /\ UNCHANGED notRich

\* quill_to_word.delta_to_html on a Delta
Q2WDeltaToHtml ==
    /\ q2wPc = "in"
    /\ richIn.t = "delta"
    /\ q2wOut' = q2w_delta_to_html(richIn.ops)
    /\ q2wPc' = "done"
    /\ UNCHANGED <<richIn, richOut, richOut2, richPc, bsOut, bsOut2, bsPc>>
    /\ UNCHANGED notRich

\* utilities/quill_lists.normalize_quill_lists on an HTML string
BsNormalize ==
    /\ bsPc = "in"
    /\ richIn.t = "html"
    /\ bsOut' = normalize_quill_lists(richIn.s)
    /\ bsPc' = "once"
    /\ UNCHANGED <<richIn, richOut, richOut2, q2wOut, richPc, q2wPc, bsOut2>>
    /\ UNCHANGED notRich

\* ... and on its own output
BsNormalizeAgain ==
    /\ bsPc = "once"
    /\ bsOut2' = normalize_quill_lists(bsOut)
    /\ bsPc' = "twice"
    /\ UNCHANGED <<richIn, richOut, richOut2, q2wOut, richPc, q2wPc, bsOut>>
    /\ UNCHANGED notRich

RichNext ==
    \/ RichNormalize
    \/ RichNormalizeAgain
    \/ Q2WDeltaToHtml
    \/ BsNormalize
    \/ BsNormalizeAgain

(***************************************************************************)
(* SANITIZER, SUBDOCUMENT BUILDER, TEMPLATE RENDERER                       *)
(* (services/word/sanitize.py, services/word/handler.py)                   *)
(* A context is a tree: a mapping of keys to nodes, a list of nodes, a      *)
(* string (a sequence of tokens) or another leaf.                          *)
(***************************************************************************)
\* ------------------------------------------------------------------ bounds
\* depth of the context tree
MaxDepth == 4

Str(s) == [t |-> "str", v |-> s, m |-> <<>>]
Dict(f) == [t |-> "dict", v |-> <<>>, m |-> f]
List(items) == [t |-> "list", v |-> <<>>, m |-> items]
Other == [t |-> "other", v |-> <<>>, m |-> <<>>]
Subdoc(html) == [t |-> "subdoc", v |-> html, m |-> <<>>]
Undefined(name) == [t |-> "undefined", v |-> <<>>, m |-> <<name>>]

\* utilities/constants.py: the dotted paths that stay rich, as their segments
EXCEPTION_HTML_FIELDS ==
    { <<"data", "zonefunctions", "guardingdescription">>,
      <<"data", "riskdescription", "1">>,
      <<"data", "zonefunctions", "controlsdescription">> }

ENABLE_HTML_LIST_HEURISTIC == TRUE

\* str.lower() of a key
Lower(k) == IF k = "Data" THEN "data" ELSE k

\* ".".join(path).lower(), kept as segments (no key holds a dot)
dotted_lower(path) == [i \in 1..Len(path) |-> Lower(path[i])]

\* strip_markup: BeautifulSoup(text).get_text(): the tags go, the text stays,
\* an entity is decoded once
strip_markup(text) ==
    LET kept == SelectSeq(text, LAMBDA t : ~IsTag(t))
    IN  [i \in 1..Len(kept) |->
            IF kept[i].k = "amp" /\ kept[i].d > 0 THEN Amp(kept[i].d - 1) ELSE kept[i]]

\* sanitize_except_exceptions
RECURSIVE sanitize_except_exceptions(_, _)
sanitize_except_exceptions(obj, parent_path) ==
    IF obj.t = "dict"
    THEN Dict([k \in DOMAIN obj.m |->
                 LET path == Append(parent_path, k)
                 IN  IF dotted_lower(path) \in EXCEPTION_HTML_FIELDS
                     THEN obj.m[k]
                     ELSE sanitize_except_exceptions(obj.m[k], path)])
    ELSE IF obj.t = "list"
    THEN List([i \in DOMAIN obj.m |-> sanitize_except_exceptions(obj.m[i], parent_path)])
    ELSE IF obj.t = "str"
    THEN Str(strip_markup(obj.v))
    ELSE obj

\* _looks_like_html_list
looks_like_html_list(val) ==
    /\ ENABLE_HTML_LIST_HEURISTIC
    /\ val.t = "str"
    /\ \E i \in 1..Len(val.v) : val.v[i].k \in {"ul", "ol", "li"}

\* _to_subdoc_html and _build_subdoc_from_html: a Subdoc holding the HTML
\* that to_semantic_html makes of the value
to_subdoc_html(value) == Subdoc(to_semantic_html(HtmlValue(value.v)))

\* _transform_exceptions_to_subdocs
RECURSIVE transform_exceptions_to_subdocs(_, _)
transform_exceptions_to_subdocs(obj, path) ==
    IF obj.t = "dict"
    THEN Dict([k \in DOMAIN obj.m |->
                 LET v == obj.m[k]
                     compare_path == dotted_lower(Append(path, k))
                 IN  IF v.t = "str"
                     THEN IF compare_path \in EXCEPTION_HTML_FIELDS
                          THEN to_subdoc_html(v)
                          ELSE IF looks_like_html_list(v)
                          THEN to_subdoc_html(v)
                          ELSE transform_exceptions_to_subdocs(v, Append(path, k))
                     ELSE transform_exceptions_to_subdocs(v, Append(path, k))])
    ELSE IF obj.t = "list"
    THEN List([i \in DOMAIN obj.m |-> transform_exceptions_to_subdocs(obj.m[i], path)])
    ELSE obj

\* ---- the template's placeholder under the PreserveUndefined environment ----
\* a segment the template writes as an integer (`a.1`): Jinja subscripts
\* with the number, not with the string
IsInteger(seg) == seg \in {"0", "1"}
IndexOf(seg) == IF seg = "0" THEN 1 ELSE 2

\* one dotted segment applied to a value.  PreserveUndefined overrides the
\* string forms of jinja2.Undefined only: an attribute or an item taken of an
\* undefined value raises UndefinedError, as with jinja2.Undefined.
jinja_get(cur, seg) ==
    IF cur.t = "undefined" THEN [raised |-> TRUE, value |-> cur]
    ELSE IF cur.t = "dict" /\ ~IsInteger(seg) /\ seg \in DOMAIN cur.m
    THEN [raised |-> FALSE, value |-> cur.m[seg]]
    ELSE IF cur.t = "list" /\ IsInteger(seg) /\ IndexOf(seg) \in DOMAIN cur.m
    THEN [raised |-> FALSE, value |-> cur.m[IndexOf(seg)]]
    ELSE [raised |-> FALSE, value |-> Undefined(seg)]

RECURSIVE jinja_resolve(_, _)
jinja_resolve(cur, segs) ==
    IF segs = <<>> THEN [raised |-> FALSE, value |-> cur]
    ELSE LET got == jinja_get(cur, Head(segs))
         IN  IF got.raised THEN got ELSE jinja_resolve(got.value, Tail(segs))

\* PreserveUndefined._render_name / __str__: what `{{ a.b.c }}` prints
render_placeholder(ctx, ph) ==
    LET first == IF Head(ph) \in DOMAIN ctx.m
                 THEN ctx.m[Head(ph)]
                 ELSE Undefined(Head(ph))
        got == jinja_resolve(first, Tail(ph))
    IN  IF got.raised
        THEN [raised |-> TRUE, kind |-> "none", name |-> ""]
        ELSE IF got.value.t = "undefined"
        THEN [raised |-> FALSE, kind |-> "placeholder", name |-> got.value.m[1]]
        ELSE [raised |-> FALSE, kind |-> got.value.t, name |-> ""]

\* ---- inputs ----
RootKeys == {"data", "Data"}
Keys == {"data", "Data", "riskdescription", "1", "note"}
KeyPaths ==
    { <<r>> \o rest : r \in RootKeys,
                      rest \in UNION { [1..n -> Keys] : n \in 0..(MaxDepth - 1) } }

PlainString == <<Word(1)>>
BoldString == <<Bo, Word(1), Bc>>
ListString == <<UL, LI(-1), Word(1), LIc, ULc>>
\* '<b>Hello</b><br>World'
BreakString == <<Bo, Word(1), Bc, BR, Word(2)>>
LeafChoices ==
    { Str(PlainString), Str(BoldString), Str(ListString), Str(BreakString),
      List(<<Str(BoldString)>>), Other }

RECURSIVE Chain(_, _)
Chain(path, leaf) ==
    IF path = <<>> THEN leaf
    ELSE Dict([k \in {Head(path)} |-> Chain(Tail(path), leaf)])

\* the placeholders tried on a context built along `path`: the path and its
\* prefixes, and the same with one segment replaced by a name the context
\* does not hold, alone or followed by one more segment
PlaceholdersOf(path) ==
    { SubSeq(path, 1, i) : i \in 1..Len(path) }
    \cup { Append(SubSeq(path, 1, i - 1), "absent") : i \in 1..(Len(path) + 1) }
    \cup { SubSeq(path, 1, i - 1) \o <<"absent", "name">> : i \in 1..(Len(path) + 1) }

RdIdle ==
    /\ rdContext = Other
    /\ placeholder = <<>>
    /\ templateIsFile = FALSE
    /\ sanitized_context = Other
    /\ context_for_tpl = Other
    /\ rendered = [raised |-> FALSE, kind |-> "none", name |-> ""]
    /\ rdPc = "off"

RdInit ==
    /\ \E p \in KeyPaths :
          /\ rdContext \in { Chain(p, leaf) : leaf \in LeafChoices }
          /\ placeholder \in PlaceholdersOf(p)
    /\ templateIsFile \in BOOLEAN
    /\ sanitized_context = Other
    /\ context_for_tpl = Other
    /\ rendered = [raised |-> FALSE, kind |-> "none", name |-> ""]
    /\ rdPc = "start"

\* render_document, step 1
RdSanitize ==
    /\ rdPc = "start"
    /\ sanitized_context' = sanitize_except_exceptions(rdContext, <<>>)
    /\ rdPc' = "sanitized"
    /\ UNCHANGED <<rdContext, placeholder, templateIsFile, context_for_tpl, rendered>>
    /\ UNCHANGED notRd

\* step 2: load_template raises FileNotFoundError when the template is no file
RdLoadTemplate ==
    /\ rdPc = "sanitized"
    /\ rdPc' = IF templateIsFile THEN "loaded" ELSE "raised_load"
    /\ UNCHANGED <<rdContext, placeholder, templateIsFile, sanitized_context,
                   context_for_tpl, rendered>>
    /\ UNCHANGED notRd

\* step 3
RdTransform ==
    /\ rdPc = "loaded"
    /\ context_for_tpl' = transform_exceptions_to_subdocs(sanitized_context, <<>>)
    /\ rdPc' = "transformed"
    /\ UNCHANGED <<rdContext, placeholder, templateIsFile, sanitized_context, rendered>>
    /\ UNCHANGED notRd

\* step 4: self.tpl.render(context_for_tpl, jinja_env=preserve_env)
RdRender ==
    /\ rdPc = "transformed"
    /\ rendered' = render_placeholder(context_for_tpl, placeholder)
    /\ rdPc' = IF rendered'.raised THEN "raised_render" ELSE "rendered"
    /\ UNCHANGED <<rdContext, placeholder, templateIsFile, sanitized_context,
                   context_for_tpl>>
    /\ UNCHANGED notRd

RdNext ==
    \/ RdSanitize
    \/ RdLoadTemplate
    \/ RdTransform
    \/ RdRender

(***************************************************************************)
(* HTML -> WORD BRIDGE: LIST STYLE NAMES (services/word/html_shim.py)      *)
(* html4docx has inserted paragraphs after an optional anchor paragraph;  *)
(* add_html_wrapper then names each inserted list paragraph's style after *)
(* its numbering level.                                                    *)
(***************************************************************************)
\* ------------------------------------------------------------------ bounds
\* paragraphs inserted by one conversion
MaxInserted == 2
\* deepest numbering level (ilvl) a paragraph carries
MaxIlvl == 10
\* deepest numbering level of the anchor paragraph
MaxAnchorIlvl == 2

SYNC_STYLE_TO_LEVEL == TRUE
RELATIVE_TO_ANCHOR_LEVEL == TRUE

\* a style name: a base name and a numeric suffix, n = 0 for no suffix
Style(base, n) == [base |-> base, n |-> n]

\* a paragraph: numPr present or not, ilvl (-1 for no ilvl), its style
Para(numbered, ilvl, style) == [numbered |-> numbered, ilvl |-> ilvl, style |-> style]

\* _ensure_list_styles: "List Bullet", "List Bullet 2" .. "List Bullet 9"
\* and the same for "List Number"
ListStyleCount == 9
ensure_list_styles(styles) ==
    styles \cup { Style(base, IF i < 2 THEN 0 ELSE i) :
                     base \in {"List Bullet", "List Number"}, i \in 1..ListStyleCount }

\* _get_num_ilvl: None is -1
get_num_ilvl(p) == IF p.numbered THEN p.ilvl ELSE -1

\* _is_numbered
is_numbered(p) == p.numbered

\* _paragraph_kind
paragraph_kind(p) ==
    IF p.style.base = "List Number" THEN "number" ELSE "bullet"

Min2(a, b) == IF a < b THEN a ELSE b

\* style_index = max(1, min(9, effective_level + 1))
style_index(effective_level) ==
    Max2(1, Min2(9, effective_level + 1))

\* the style name chosen for a kind and an index
style_name(kind, index) ==
    IF index < 2
    THEN IF kind = "number" THEN Style("List Number", 1) ELSE Style("List Bullet", 0)
    ELSE IF kind = "number" THEN Style("List Number", index) ELSE Style("List Bullet", index)

\* ---- inputs ----
InsertedParas ==
    { Para(TRUE, ilvl, Style(base, 0)) :
         ilvl \in {-1, 0, 1, 2, MaxIlvl - 2, MaxIlvl - 1, MaxIlvl},
         base \in {"List Bullet", "List Number", "Normal"} }
    \cup { Para(FALSE, -1, Style(base, 0)) : base \in {"List Bullet", "Normal"} }
\* the paragraph before the first new one
Anchors ==
    {Para(FALSE, -1, Style("Normal", 0))}
    \cup { Para(TRUE, l, Style("List Bullet", 0)) : l \in -1..MaxAnchorIlvl }
NoPara == Para(FALSE, -1, Style("", 0))

ShimIdle ==
    /\ shimParas = <<>>
    /\ shimAnchor = NoPara
    /\ shimHasAnchor = FALSE
    /\ shimStyles = {}
    /\ shimIdx = 0
    /\ shimLog = {}
    /\ shimPc = "off"

\* add_html_wrapper after _parser.add_html_to_document
ShimInit ==
    /\ shimParas \in UNION { [1..n -> InsertedParas] : n \in 1..MaxInserted }
    /\ shimHasAnchor \in BOOLEAN
    /\ shimAnchor \in (IF shimHasAnchor THEN Anchors ELSE {NoPara})
    /\ shimStyles = ensure_list_styles({Style("Normal", 0)})
    /\ shimIdx = 1
    /\ shimLog = {}
    /\ shimPc = "sync"

anchor_level ==
    IF RELATIVE_TO_ANCHOR_LEVEL /\ shimHasAnchor THEN get_num_ilvl(shimAnchor) ELSE -1

\* the loop of _sync_style_name_with_level: a paragraph that is not
\* numbered or has no ilvl is passed over
ShimSkip ==
    /\ shimPc = "sync"
    /\ shimIdx <= Len(shimParas)
    /\ IF is_numbered(shimParas[shimIdx]) THEN get_num_ilvl(shimParas[shimIdx]) < 0 ELSE TRUE
    /\ shimIdx' = shimIdx + 1
    /\ UNCHANGED <<shimParas, shimAnchor, shimHasAnchor, shimStyles, shimLog, shimPc>>
    /\ UNCHANGED notShim

\* ... and a numbered one gets the style of its level; _set_paragraph_style_name
\* adds the style when the document has none of that name
ShimSyncStyle ==
    /\ shimPc = "sync"
    /\ shimIdx <= Len(shimParas)
    /\ is_numbered(shimParas[shimIdx])
    /\ get_num_ilvl(shimParas[shimIdx]) >= 0
    /\ LET p == shimParas[shimIdx]
           name == style_name(paragraph_kind(p), style_index(get_num_ilvl(p)))
       IN  /\ shimParas' = [shimParas EXCEPT ![shimIdx].style = name]
           /\ shimStyles' = shimStyles \cup {name}
    /\ shimLog' = shimLog \cup {"debug"}
    /\ shimIdx' = shimIdx + 1
    /\ UNCHANGED <<shimAnchor, shimHasAnchor, shimPc>>
    /\ UNCHANGED notShim

ShimDone ==
    /\ shimPc = "sync"
    /\ shimIdx > Len(shimParas)
    /\ shimPc' = "done"
    /\ UNCHANGED <<shimParas, shimAnchor, shimHasAnchor, shimStyles, shimIdx, shimLog>>
    /\ UNCHANGED notShim

ShimNext ==
    \/ ShimSkip
    \/ ShimSyncStyle
    \/ ShimDone

(***************************************************************************)
(* render_document AT THE LEVEL OF FILES (services/word/handler.py 190-246, *)
(* services/word/images.py 204-285).  A handler runs the steps of          *)
(* render_document; two handlers may run at once.  A package is named by   *)
(* the handler whose render produced it (0: a package that was there       *)
(* before) and by whether its image markers were resolved.  A file is      *)
(* written in place: it is truncated when the write begins and complete    *)
(* when it ends.                                                           *)
(***************************************************************************)
Handlers == {1, 2}

Pkg(from, img) == [from |-> from, img |-> img]
NoPkg == Pkg(0, FALSE)
File(state, pkg) == [state |-> state, pkg |-> pkg]
Absent == File("absent", NoPkg)
Complete(pkg) == File("complete", pkg)
Partial(pkg) == File("partial", pkg)

\* the package self.tpl holds after self.tpl.render(context_for_tpl, ...)
rendered_package_m(h) == Pkg(0, FALSE)
rendered_package(h) == Pkg(h, FALSE)

\* the messages of send_status that open the phases, in the order of the code
PhaseOrder == <<"sanitize", "load", "subdoc", "render", "images", "final">>

RunTerminal == {"off", "done", "raised", "crashed"}

RunIdle ==
    /\ runPc = [h \in Handlers |-> "off"]
    /\ runStatus = [h \in Handlers |-> <<>>]
    /\ runRenders = [h \in Handlers |-> 0]
    /\ runTpl = [h \in Handlers |-> NoPkg]
    /\ runDoc = [h \in Handlers |-> NoPkg]
    /\ runWorkdir = [h \in Handlers |-> FALSE]
    /\ runUnzipped = [h \in Handlers |-> NoPkg]
    /\ runNoimage = [h \in Handlers |-> Absent]
    /\ runOutput = [h \in Handlers |-> Absent]
    /\ runCrashedAt = [h \in Handlers |-> "none"]
    /\ temp_rendered = Absent
    /\ docx_out_tmp = Absent

\* the handlers in `active` are about to run render_document; the temporary
\* directory may hold the files an earlier run left, an output path may hold
\* an earlier document
RunStart(active) ==
    /\ runPc = [h \in Handlers |-> IF h \in active THEN "start" ELSE "off"]
    /\ runStatus = [h \in Handlers |-> <<>>]
    /\ runRenders = [h \in Handlers |-> 0]
    /\ runTpl = [h \in Handlers |-> NoPkg]
    /\ runDoc = [h \in Handlers |-> NoPkg]
    /\ runWorkdir = [h \in Handlers |-> FALSE]
    /\ runUnzipped = [h \in Handlers |-> NoPkg]
    /\ runNoimage = [h \in Handlers |-> Absent]
    /\ runOutput \in [Handlers -> {Absent, Complete(NoPkg)}]
    /\ \A h \in Handlers : h \notin active => runOutput[h] = Absent
    /\ runCrashedAt = [h \in Handlers |-> "none"]
    /\ temp_rendered \in {Absent, Complete(NoPkg)}
    /\ docx_out_tmp = Absent

RunInit == RunStart(Handlers)
RunSoloInit == RunStart({1})

RunStep(h, from, to) ==
    /\ runPc[h] = from
    /\ runPc' = [runPc EXCEPT ![h] = to]

RunSay(h, phase) == runStatus' = [runStatus EXCEPT ![h] = Append(@, phase)]

\* line 193-195: step 1
RunSanitize ==
    \E h \in Handlers :
    /\ RunStep(h, "start", "sanitized")
    /\ RunSay(h, "sanitize")
    /\ UNCHANGED <<runRenders, runTpl, runDoc, runWorkdir, runUnzipped, runNoimage,
                   runOutput, runCrashedAt, temp_rendered, docx_out_tmp>>
    /\ UNCHANGED notRun

\* lines 197-200, load_template: FileNotFoundError when the template is no file
RunLoadTemplate ==
    \E h \in Handlers :
    /\ \E isfile_template \in BOOLEAN :
          RunStep(h, "sanitized", IF isfile_template THEN "loaded" ELSE "raised")
    /\ RunSay(h, "load")
    /\ UNCHANGED <<runRenders, runTpl, runDoc, runWorkdir, runUnzipped, runNoimage,
                   runOutput, runCrashedAt, temp_rendered, docx_out_tmp>>
    /\ UNCHANGED notRun

\* lines 202-209: step 3
RunTransform ==
    \E h \in Handlers :
    /\ RunStep(h, "loaded", "transformed")
    /\ RunSay(h, "subdoc")
    /\ UNCHANGED <<runRenders, runTpl, runDoc, runWorkdir, runUnzipped, runNoimage,
                   runOutput, runCrashedAt, temp_rendered, docx_out_tmp>>
    /\ UNCHANGED notRun

\* lines 211-215: step 4, the one render; the template engine may raise
RunRender ==
    \E h \in Handlers :
    /\ runPc[h] = "transformed"
    /\ RunSay(h, "render")
    /\ runRenders' = [runRenders EXCEPT ![h] = @ + 1]
    /\ \E raises \in BOOLEAN :
          IF raises
          THEN /\ runPc' = [runPc EXCEPT ![h] = "raised"]
               /\ UNCHANGED runTpl
          ELSE /\ runPc' = [runPc EXCEPT ![h] = "rendered"]
               /\ runTpl' = [runTpl EXCEPT ![h] = rendered_package(h)]
    /\ UNCHANGED <<runDoc, runWorkdir, runUnzipped, runNoimage, runOutput,
                   runCrashedAt, temp_rendered, docx_out_tmp>>
    /\ UNCHANGED notRun

\* lines 217-219: self.tpl.save(temp_doc_path), the path being
\* <tempdir>/temp_rendered.docx for every handler
RunSaveTempBegin ==
    \E h \in Handlers :
    /\ RunStep(h, "rendered", "saving_temp")
    /\ temp_rendered' = Partial(runTpl[h])
    /\ UNCHANGED <<runStatus, runRenders, runTpl, runDoc, runWorkdir, runUnzipped,
                   runNoimage, runOutput, runCrashedAt, docx_out_tmp>>
    /\ UNCHANGED notRun

RunSaveTempEnd ==
    \E h \in Handlers :
    /\ RunStep(h, "saving_temp", "saved_temp")
    /\ temp_rendered' = Complete(runTpl[h])
    /\ UNCHANGED <<runStatus, runRenders, runTpl, runDoc, runWorkdir, runUnzipped,
                   runNoimage, runOutput, runCrashedAt, docx_out_tmp>>
    /\ UNCHANGED notRun

\* shutil.copy2(src, dst): dst becomes the file at src; a missing src raises
\* and leaves dst as it was
copy2_m(from, to) == IF from.state = "absent" THEN to ELSE Partial(from.pkg)
copy2(from, to) == IF from.state = "absent" THEN to ELSE from

\* lines 221-230: shutil.copy2(temp_doc_path, noimage_path); an exception is
\* logged as a warning and the run goes on
RunCopyNoImage ==
    \E h \in Handlers :
    /\ RunStep(h, "saved_temp", "noimage")
    /\ \E copied \in BOOLEAN :
          runNoimage' = [runNoimage EXCEPT ![h] =
                            IF copied THEN copy2(temp_rendered, @) ELSE @]
    /\ UNCHANGED <<runStatus, runRenders, runTpl, runDoc, runWorkdir, runUnzipped,
                   runOutput, runCrashedAt, temp_rendered, docx_out_tmp>>
    /\ UNCHANGED notRun

\* lines 232-234 and images.py 211-230: step 5 begins; mkdtemp, copy of
\* docx_path, extractall.  A missing file raises before the directory is
\* filled, a truncated archive raises in ZipFile; the directory stays.
RunImgOpen ==
    \E h \in Handlers :
    /\ runPc[h] = "noimage"
    /\ RunSay(h, "images")
    /\ runWorkdir' = [runWorkdir EXCEPT ![h] = TRUE]
    /\ IF temp_rendered.state = "complete"
       THEN /\ runUnzipped' = [runUnzipped EXCEPT ![h] = temp_rendered.pkg]
            /\ runPc' = [runPc EXCEPT ![h] = "img_loop"]
       ELSE /\ runPc' = [runPc EXCEPT ![h] = "raised"]
            /\ UNCHANGED runUnzipped
    /\ UNCHANGED <<runRenders, runTpl, runDoc, runNoimage, runOutput, runCrashedAt,
                   temp_rendered, docx_out_tmp>>
    /\ UNCHANGED notRun

\* images.py 232-268: the loop over the paragraphs: it replaces a marker,
\* or none, or raises on a file that is no image
RunImgResolve ==
    \E h \in Handlers :
    /\ runPc[h] = "img_loop"
    /\ \E outcome \in {"changed", "unchanged", "raises"} :
          /\ runPc' = [runPc EXCEPT ![h] =
                          CASE outcome = "changed" -> "img_changed"
                            [] outcome = "unchanged" -> "img_cleanup"
                            [] OTHER -> "raised"]
          /\ runUnzipped' = [runUnzipped EXCEPT ![h] =
                                IF outcome = "changed" THEN Pkg(@.from, TRUE) ELSE @]
    /\ UNCHANGED <<runStatus, runRenders, runTpl, runDoc, runWorkdir, runNoimage,
                   runOutput, runCrashedAt, temp_rendered, docx_out_tmp>>
    /\ UNCHANGED notRun

\* images.py 270-283: zip the scratch tree into out.docx, then
\* shutil.copy2(tmp_out, docx_path)
RunImgWriteBegin ==
    \E h \in Handlers :
    /\ RunStep(h, "img_changed", "img_writing")
    /\ temp_rendered' = Partial(runUnzipped[h])
    /\ UNCHANGED <<runStatus, runRenders, runTpl, runDoc, runWorkdir, runUnzipped,
                   runNoimage, runOutput, runCrashedAt, docx_out_tmp>>
    /\ UNCHANGED notRun

RunImgWriteEnd ==
    \E h \in Handlers :
    /\ RunStep(h, "img_writing", "img_cleanup")
    /\ temp_rendered' = Complete(runUnzipped[h])
    /\ UNCHANGED <<runStatus, runRenders, runTpl, runDoc, runWorkdir, runUnzipped,
                   runNoimage, runOutput, runCrashedAt, docx_out_tmp>>
    /\ UNCHANGED notRun

\* images.py 285: shutil.rmtree(workdir)
RunImgCleanup ==
    \E h \in Handlers :
    /\ RunStep(h, "img_cleanup", "images_done")
    /\ runWorkdir' = [runWorkdir EXCEPT ![h] = FALSE]
    /\ UNCHANGED <<runStatus, runRenders, runTpl, runDoc, runUnzipped, runNoimage,
                   runOutput, runCrashedAt, temp_rendered, docx_out_tmp>>
    /\ UNCHANGED notRun

\* lines 236-238: self.doc = Document(temp_doc_path)
RunLoadFinal ==
    \E h \in Handlers :
    /\ runPc[h] = "images_done"
    /\ RunSay(h, "final")
    /\ IF temp_rendered.state = "complete"
       THEN /\ runDoc' = [runDoc EXCEPT ![h] = temp_rendered.pkg]
            /\ runPc' = [runPc EXCEPT ![h] = "final_loaded"]
       ELSE /\ runPc' = [runPc EXCEPT ![h] = "raised"]
            /\ UNCHANGED runDoc
    /\ UNCHANGED <<runRenders, runTpl, runWorkdir, runUnzipped, runNoimage, runOutput,
                   runCrashedAt, temp_rendered, docx_out_tmp>>
    /\ UNCHANGED notRun

\* lines 239-243: self.doc.save(output_path); on FileNotFoundError, which
\* leaves the path as it was, _atomic_save_to
RunFinalSaveBegin ==
    \E h \in Handlers :
    /\ runPc[h] = "final_loaded"
    /\ \E file_not_found \in BOOLEAN :
          IF file_not_found
          THEN /\ runPc' = [runPc EXCEPT ![h] = "atomic_save"]
               /\ UNCHANGED runOutput
          ELSE /\ runPc' = [runPc EXCEPT ![h] = "final_writing"]
               /\ runOutput' = [runOutput EXCEPT ![h] = Partial(runDoc[h])]
    /\ UNCHANGED <<runStatus, runRenders, runTpl, runDoc, runWorkdir, runUnzipped,
                   runNoimage, runCrashedAt, temp_rendered, docx_out_tmp>>
    /\ UNCHANGED notRun

RunFinalSaveEnd ==
    \E h \in Handlers :
    /\ RunStep(h, "final_writing", "done")
    /\ runOutput' = [runOutput EXCEPT ![h] = Complete(runDoc[h])]
    /\ UNCHANGED <<runStatus, runRenders, runTpl, runDoc, runWorkdir, runUnzipped,
                   runNoimage, runCrashedAt, temp_rendered, docx_out_tmp>>
    /\ UNCHANGED notRun

\* _atomic_save_to, line 106: src_doc.save(<tempdir>/docx_out_tmp.docx)
RunAtomicSaveTmp ==
    \E h \in Handlers :
    /\ RunStep(h, "atomic_save", "atomic_copy")
    /\ docx_out_tmp' = Complete(runDoc[h])
    /\ UNCHANGED <<runStatus, runRenders, runTpl, runDoc, runWorkdir, runUnzipped,
                   runNoimage, runOutput, runCrashedAt, temp_rendered>>
    /\ UNCHANGED notRun

\* _atomic_save_to, line 107: shutil.copy2(tmp_local, final_path)
RunAtomicCopyBegin ==
    \E h \in Handlers :
    /\ runPc[h] = "atomic_copy"
    /\ \E file_not_found \in BOOLEAN :
          IF file_not_found
          THEN /\ runPc' = [runPc EXCEPT ![h] = "raised"]
               /\ UNCHANGED runOutput
          ELSE /\ runPc' = [runPc EXCEPT ![h] = "atomic_writing"]
               /\ runOutput' = [runOutput EXCEPT ![h] = Partial(docx_out_tmp.pkg)]
    /\ UNCHANGED <<runStatus, runRenders, runTpl, runDoc, runWorkdir, runUnzipped,
                   runNoimage, runCrashedAt, temp_rendered, docx_out_tmp>>
    /\ UNCHANGED notRun

RunAtomicCopyEnd ==
    \E h \in Handlers :
    /\ RunStep(h, "atomic_writing", "done")
    /\ runOutput' = [runOutput EXCEPT ![h] = Complete(docx_out_tmp.pkg)]
    /\ UNCHANGED <<runStatus, runRenders, runTpl, runDoc, runWorkdir, runUnzipped,
                   runNoimage, runCrashedAt, temp_rendered, docx_out_tmp>>
    /\ UNCHANGED notRun

\* the process is killed between two steps
RunCrash ==
    \E h \in Handlers :
    /\ runPc[h] \notin RunTerminal
    /\ runCrashedAt' = [runCrashedAt EXCEPT ![h] = runPc[h]]
    /\ runPc' = [runPc EXCEPT ![h] = "crashed"]
    /\ UNCHANGED <<runStatus, runRenders, runTpl, runDoc, runWorkdir, runUnzipped,
                   runNoimage, runOutput, temp_rendered, docx_out_tmp>>
    /\ UNCHANGED notRun


RunNext ==
    \/ RunSanitize
    \/ RunLoadTemplate
    \/ RunTransform
    \/ RunRender
    \/ RunSaveTempBegin
    \/ RunSaveTempEnd
    \/ RunCopyNoImage
    \/ RunImgOpen
    \/ RunImgResolve
    \/ RunImgWriteBegin
    \/ RunImgWriteEnd
    \/ RunImgCleanup
    \/ RunLoadFinal
    \/ RunFinalSaveBegin
    \/ RunFinalSaveEnd
    \/ RunAtomicSaveTmp
    \/ RunAtomicCopyBegin
    \/ RunAtomicCopyEnd
    \/ RunCrash

(***************************************************************************)
(* IMAGE SIZING (services/word/images.py 41-62, 254-263;                   *)
(* utilities/constants.py 15-23).  Lengths are exact fractions n/d in       *)
(* lowest terms; the floating-point results of the code differ from them   *)
(* by less than the rounding of _emu_from_mm resolves, except on a tie.    *)
(***************************************************************************)
PxStep == 13
MaxPxSteps == 12

RECURSIVE GCD(_, _)
GCD(a, b) == IF b = 0 THEN a ELSE GCD(b, a % b)

Rat(n, d) == LET g == GCD(n, d) IN [n |-> n \div g, d |-> d \div g]
RatMul(a, b) ==
    LET g1 == GCD(a.n, b.d)
        g2 == GCD(b.n, a.d)
    IN  [n |-> (a.n \div g1) * (b.n \div g2), d |-> (a.d \div g2) * (b.d \div g1)]
RatDiv(a, b) == RatMul(a, [n |-> b.d, d |-> b.n])
RatLe(a, b) ==
    LET gn == GCD(a.n, b.n)
        gd == GCD(a.d, b.d)
    IN  IF gn = 0 THEN a.n <= b.n
        ELSE (a.n \div gn) * (b.d \div gd) <= (b.n \div gn) * (a.d \div gd)
RatMin(a, b) == IF RatLe(a, b) THEN a ELSE b

\* round(): to the nearest integer, a tie to the even one
round(x) ==
    LET q == x.n \div x.d
        rem == x.n % x.d
    IN  IF 2 * rem < x.d THEN q
        ELSE IF 2 * rem > x.d THEN q + 1
        ELSE IF q % 2 = 0 THEN q ELSE q + 1

\* _emu_from_mm: int(round(mm / 25.4 * 914400))
emu_from_mm(mm) == round(RatMul(RatDiv(mm, Rat(254, 10)), Rat(914400, 1)))

\* IMAGE_SIZE_LIMITS, (max width, max height) in mm
IMAGE_SIZE_LIMITS ==
    [k \in {"customercontact.logo", "titleImage", "systemLayout.elevation",
            "systemLayout.end", "systemLayout.iso", "systemLayout.top",
            "systemLayout.title"} |->
        CASE k = "customercontact.logo" -> <<Rat(127, 1), Rat(4572, 100)>>
          [] k \in {"titleImage", "systemLayout.title"} -> <<Rat(9525, 100), Rat(5715, 100)>>
          [] OTHER -> <<Rat(15875, 100), Rat(1524, 10)>>]

DefaultDpi == 96
NaturalLimit == 99999

\* img.info.get("dpi"): absent, or a pair whose first entry is x
NoDpi == [has |-> FALSE, x |-> 0]
Dpi(x) == [has |-> TRUE, x |-> x]
\* (img.info.get("dpi") or (96, 96))[0] or 96
dpi_of(info) == IF info.has /\ info.x # 0 THEN info.x ELSE DefaultDpi

\* _scaled_mm
scaled_mm_m(w_px, h_px, info, max_w_mm, max_h_mm) ==
    LET dpi == dpi_of(info)
        w_mm == RatMul(Rat(w_px, dpi), Rat(254, 10))
        h_mm == RatMul(Rat(h_px, dpi), Rat(254, 10))
        scale == RatMin(Rat(1, 1), RatDiv(max_w_mm, w_mm))
    IN  <<RatMul(w_mm, scale), RatMul(h_mm, scale)>>
scaled_mm(w_px, h_px, info, max_w_mm, max_h_mm) ==
    LET dpi == dpi_of(info)
        w_mm == RatMul(Rat(w_px, dpi), Rat(254, 10))
        h_mm == RatMul(Rat(h_px, dpi), Rat(254, 10))
        scale == RatMin(Rat(1, 1),
                        RatMin(IF w_mm.n # 0 THEN RatDiv(max_w_mm, w_mm) ELSE Rat(1, 1),
                               IF h_mm.n # 0 THEN RatDiv(max_h_mm, h_mm) ELSE Rat(1, 1)))
    IN  <<RatMul(w_mm, scale), RatMul(h_mm, scale)>>

\* lines 254-261: the limits of the short key, or "natural" size
size_limits(short_key) ==
    IF short_key \in DOMAIN IMAGE_SIZE_LIMITS
    THEN IMAGE_SIZE_LIMITS[short_key]
    ELSE <<Rat(NaturalLimit, 1), Rat(NaturalLimit, 1)>>

ShortKeys == DOMAIN IMAGE_SIZE_LIMITS \cup {"photo"}
PixelSizes == {PxStep * i : i \in 1..MaxPxSteps}
DpiInfos == {NoDpi, Dpi(0), Dpi(7), Dpi(24)}

SzIdle ==
    /\ szKey = "photo"
    /\ szPx = <<1, 1>>
    /\ szDpiInfo = NoDpi
    /\ szMm = <<Rat(0, 1), Rat(0, 1)>>
    /\ szEmu = <<0, 0>>
    /\ szPc = "off"

SzInit ==
    /\ szKey \in ShortKeys
    /\ szPx \in PixelSizes \X PixelSizes
    /\ szDpiInfo \in DpiInfos
    /\ szMm = <<Rat(0, 1), Rat(0, 1)>>
    /\ szEmu = <<0, 0>>
    /\ szPc = "start"

\* lines 254-261: w_mm, h_mm = _scaled_mm(image_path, max_w, max_h)
SzScale ==
    /\ szPc = "start"
    /\ szMm' = scaled_mm(szPx[1], szPx[2], szDpiInfo,
                         size_limits(szKey)[1], size_limits(szKey)[2])
    /\ szPc' = "scaled"
    /\ UNCHANGED <<szKey, szPx, szDpiInfo, szEmu>>
    /\ UNCHANGED notSz

\* line 263: cx, cy = _emu_from_mm(w_mm), _emu_from_mm(h_mm)
SzEmu ==
    /\ szPc = "scaled"
    /\ szEmu' = <<emu_from_mm(szMm[1]), emu_from_mm(szMm[2])>>
    /\ szPc' = "done"
    /\ UNCHANGED <<szKey, szPx, szDpiInfo, szMm>>
    /\ UNCHANGED notSz

SzNext == SzScale \/ SzEmu

(***************************************************************************)
(* FLATTENING OF REPEATABLE GROUPS (viewmodels/quote_viewmodel.py 426-437, *)
(* archive/word_submission.py 82-116, utilities/util.py 14-41).  A dict is *)
(* the sequence of its entries in insertion order.  A key is the sequence  *)
(* of the parts key.split('.') gives, so that f"{k}.{idx}" is k \o idx and *)
(* a key of a nested dict built by splitting has one part.                 *)
(***************************************************************************)
MaxFields == 2
MaxRows == 2

Entry(k, val) == [k |-> k, val |-> val]
ODict(items) == [t |-> "dict", items |-> items, v |-> ""]
Value(x) == [t |-> "value", items |-> <<>>, v |-> x]

od_has(items, k) == \E i \in 1..Len(items) : items[i].k = k
od_get(items, k) == items[CHOOSE i \in 1..Len(items) : items[i].k = k].val
\* d[k] = val: an existing key keeps its place
od_set(items, k, val) ==
    IF od_has(items, k)
    THEN [i \in 1..Len(items) |-> IF items[i].k = k THEN Entry(k, val) ELSE items[i]]
    ELSE Append(items, Entry(k, val))

\* flatten_system_desc
RECURSIVE fsd_rows(_, _, _, _)
fsd_rows(flat, k, rows, i) ==
    IF i > Len(rows) THEN flat
    ELSE fsd_rows(od_set(flat, k \o rows[i].k, rows[i].val), k, rows, i + 1)

RECURSIVE fsd_fields(_, _, _)
fsd_fields(flat, fields, i) ==
    IF i > Len(fields) THEN flat
    ELSE LET e == fields[i]
         IN  fsd_fields(IF e.val.t = "dict"
                        THEN fsd_rows(flat, e.k, e.val.items, 1)
                        ELSE od_set(flat, e.k, e.val),
                        fields, i + 1)

flatten_system_desc_m(system_desc) ==
    fsd_fields(<<>>, [i \in 1..Len(system_desc.items) |->
                        Entry(system_desc.items[i].k, Value("row"))], 1)
flatten_system_desc(system_desc) == fsd_fields(<<>>, system_desc.items, 1)

\* _flatten_dict: the list `items` of (new_key, v) pairs
RECURSIVE flatten_pairs(_, _, _)
flatten_pairs(entries, parent_key, i) ==
    IF i > Len(entries) THEN <<>>
    ELSE LET new_key == parent_key \o entries[i].k
             v == entries[i].val
         IN  (IF v.t = "dict" THEN flatten_pairs(v.items, new_key, 1)
              ELSE <<Entry(new_key, v)>>)
             \o flatten_pairs(entries, parent_key, i + 1)

\* dict(items)
RECURSIVE dict_of(_, _, _)
dict_of(flat, pairs, i) ==
    IF i > Len(pairs) THEN flat
    ELSE dict_of(od_set(flat, pairs[i].k, pairs[i].val), pairs, i + 1)

flatten_dict(d) == dict_of(<<>>, flatten_pairs(d.items, <<>>, 1), 1)

\* _unflatten_dict, the loop over the parts of one key
RECURSIVE uf_set(_, _, _)
uf_set(items, parts, value) ==
    LET part == <<Head(parts)>>
    IN  IF Len(parts) = 1 THEN od_set(items, part, value)
        ELSE LET sub == IF od_has(items, part) /\ od_get(items, part).t = "dict"
                        THEN od_get(items, part).items
                        ELSE <<>>
             IN  od_set(items, part, ODict(uf_set(sub, Tail(parts), value)))

RECURSIVE uf_loop(_, _, _)
uf_loop(result, flat, i) ==
    IF i > Len(flat) THEN result
    ELSE uf_loop(uf_set(result, flat[i].k, flat[i].val), flat, i + 1)

unflatten_dict(flat) ==
    LET result == uf_loop(<<>>, flat, 1)
    IN  IF od_has(result, <<"data">>) /\ od_get(result, <<"data">>).t = "dict"
        THEN ODict(<<Entry(<<"data">>, od_get(result, <<"data">>))>>)
        ELSE ODict(result)

\* merge_nested_dict(d, key, value)
RECURSIVE merge_nested_dict(_, _, _)
merge_nested_dict(items, keys, value) ==
    LET k == <<Head(keys)>>
    IN  IF Len(keys) = 1 THEN od_set(items, k, value)
        ELSE LET current == IF od_has(items, k) /\ od_get(items, k).t = "dict"
                            THEN od_get(items, k).items
                            ELSE <<>>
             IN  od_set(items, k, ODict(merge_nested_dict(current, Tail(keys), value)))

\* set_field for every flat key in turn
RECURSIVE merge_all(_, _, _)
merge_all(items, flat, i) ==
    IF i > Len(flat) THEN ODict(items)
    ELSE merge_all(merge_nested_dict(items, flat[i].k, flat[i].val), flat, i + 1)

\* the names of fields: 'name' and 'description' (models/headers.py), and
\* two a stored quote may hold: 'data' and the dotted 'name.1'
FieldNames == { <<"name">>, <<"description">>, <<"data">>, <<"name", "1">> }
IndexStrings == { <<"1">>, <<"2">> }
CellValues == { "A", "B" }

Injective(s) == \A i, j \in 1..Len(s) : s[i].k = s[j].k => i = j
RowMaps ==
    { rows \in UNION { [1..n -> [k : IndexStrings, val : {Value(x) : x \in CellValues}]] :
                          n \in 0..MaxRows } : Injective(rows) }
GroupMaps ==
    { fields \in UNION { [1..n -> [k : FieldNames, val : {ODict(r) : r \in RowMaps}]] :
                            n \in 1..MaxFields } : Injective(fields) }

FlIdle ==
    /\ flIn = ODict(<<>>)
    /\ flFlat = <<>>
    /\ flOut = ODict(<<>>)
    /\ flVia = <<>>
    /\ flPc = "off"

FlInit ==
    /\ flIn \in { ODict(g) : g \in GroupMaps }
    /\ flFlat = <<>>
    /\ flOut = ODict(<<>>)
    /\ flVia = <<>>
    /\ flPc = "start"

FlFlattenSystemDesc ==
    /\ flPc = "start"
    /\ flFlat' = flatten_system_desc(flIn)
    /\ flPc' = "flat"
    /\ UNCHANGED <<flIn, flOut>>
    /\ flVia' = Append(flVia, "flatten_system_desc")
    /\ UNCHANGED notFl

FlFlattenDict ==
    /\ flPc = "start"
    /\ flFlat' = flatten_dict(flIn)
    /\ flPc' = "flat"
    /\ UNCHANGED <<flIn, flOut>>
    /\ flVia' = Append(flVia, "_flatten_dict")
    /\ UNCHANGED notFl

FlUnflattenDict ==
    /\ flPc = "flat"
    /\ flOut' = unflatten_dict(flFlat)
    /\ flPc' = "nested"
    /\ UNCHANGED <<flIn, flFlat>>
    /\ flVia' = Append(flVia, "_unflatten_dict")
    /\ UNCHANGED notFl

FlMergeAll ==
    /\ flPc = "flat"
    /\ flOut' = merge_all(<<>>, flFlat, 1)
    /\ flPc' = "nested"
    /\ UNCHANGED <<flIn, flFlat>>
    /\ flVia' = Append(flVia, "merge_nested_dict")
    /\ UNCHANGED notFl

FlNext == FlFlattenSystemDesc \/ FlFlattenDict \/ FlUnflattenDict \/ FlMergeAll

(***************************************************************************)
(* LIST LEVELS OF TEMPLATE PLACEHOLDERS                                    *)
(* (services/word/helpers/jinja_list_levels.py, list_level_probe.py).      *)
(* A style name is its family ('List Bullet', 'List Number', ...), the     *)
(* numeral it ends with (0: none) and whether it ends with the characters  *)
(* backslash, d, backslash.                                                *)
(***************************************************************************)
MaxTplParas == 2
MaxProbeIlvl == 4

NoIlvl == -1        \* _paragraph_ilvl returned None
NoLevel == 0        \* _resolve_bullet_level returned None

PStyle(family, n, ends_backslash_d) ==
    [family |-> family, n |-> n, ends_backslash_d |-> ends_backslash_d]
NoStyle == PStyle("", 0, FALSE)

\* 'list' in norm and 'bullet' in norm
is_list_bullet(paragraph_style) == paragraph_style.family = "List Bullet"

\* re.search(r'(\\d+)\\s*$', ...): in a raw string the pattern asks for a
\* backslash, one or more 'd', a backslash and any number of 's' at the end
\* of the name; group 1 is then the run of 'd'
re_search_matches(paragraph_style) == paragraph_style.ends_backslash_d

\* int(m.group(1)) of a run of 'd' raises ValueError
int_of_group_raises(paragraph_style) == TRUE

\* _resolve_bullet_level
resolve_bullet_level(paragraph_style, ilvl_zero_based) ==
    IF paragraph_style # NoStyle /\ is_list_bullet(paragraph_style)
    THEN IF re_search_matches(paragraph_style) /\ ~int_of_group_raises(paragraph_style)
              /\ 1 <= paragraph_style.n /\ paragraph_style.n <= 4
         THEN paragraph_style.n
         ELSE 1
    ELSE IF ilvl_zero_based # NoIlvl /\ 0 <= ilvl_zero_based /\ ilvl_zero_based <= 3
    THEN ilvl_zero_based + 1
    ELSE NoLevel

\* _aggregate_levels: the first level that is not None, key by key
RECURSIVE aggregate_levels(_, _, _)
aggregate_levels(out, details, i) ==
    IF i > Len(details) THEN out
    ELSE LET dt == details[i]
         IN  aggregate_levels(
                 IF dt.list_bullet_level = NoLevel \/ dt.key \in {e.key : e \in out}
                 THEN out
                 ELSE out \cup {[key |-> dt.key, level |-> dt.list_bullet_level]},
                 details, i + 1)

\* probe_marker_levels: the levels from 1 to 4
probe_marker_levels(levels) == {e \in levels : 1 <= e.level /\ e.level <= 4}

StyleChoices ==
    { NoStyle, PStyle("List Bullet", 0, FALSE), PStyle("List Bullet", 3, FALSE),
      PStyle("List Bullet", 0, TRUE), PStyle("List Number", 2, FALSE),
      PStyle("List Paragraph", 0, FALSE) }
MarkerKeys == {"requirements", "notes"}
TplParas == [style : StyleChoices, ilvl : NoIlvl..MaxProbeIlvl, key : MarkerKeys]

LvIdle ==
    /\ lvTemplate = <<>>
    /\ lvDetails = <<>>
    /\ lvLevels = {}
    /\ lvPc = "off"

LvInit ==
    /\ lvTemplate \in UNION { [1..n -> TplParas] : n \in 1..MaxTplParas }
    /\ lvDetails = <<>>
    /\ lvLevels = {}
    /\ lvPc = "scan"

\* from_file: the next paragraph with a token
LvInspectPara ==
    /\ lvPc = "scan"
    /\ Len(lvDetails) < Len(lvTemplate)
    /\ LET p == lvTemplate[Len(lvDetails) + 1]
       IN  lvDetails' = Append(lvDetails,
               [para_index |-> Len(lvDetails), paragraph_style |-> p.style,
                ilvl_zero_based |-> p.ilvl, key |-> p.key,
                list_bullet_level |-> resolve_bullet_level(p.style, p.ilvl)])
    /\ UNCHANGED <<lvTemplate, lvLevels, lvPc>>
    /\ UNCHANGED notLv

\* __init__: self.marker_levels = self._aggregate_levels(details)
LvAggregate ==
    /\ lvPc = "scan"
    /\ Len(lvDetails) = Len(lvTemplate)
    /\ lvLevels' = aggregate_levels({}, lvDetails, 1)
    /\ lvPc' = "aggregated"
    /\ UNCHANGED <<lvTemplate, lvDetails>>
    /\ UNCHANGED notLv

\* probe_marker_levels
LvProbe ==
    /\ lvPc = "aggregated"
    /\ lvLevels' = probe_marker_levels(lvLevels)
    /\ lvPc' = "probed"
    /\ UNCHANGED <<lvTemplate, lvDetails>>
    /\ UNCHANGED notLv

LvNext == LvInspectPara \/ LvAggregate \/ LvProbe

(***************************************************************************)
(* PAGINATION PASS (services/word/pagination.py).  Word is the outside     *)
(* collaborator: it lays the paragraphs out, one after the other, on pages *)
(* that hold PageInches of text below a top margin of one inch; a page     *)
(* break sends what follows to the top of the next page.  Lengths are in   *)
(* inches (72 points).                                                     *)
(***************************************************************************)
MaxPgParas == 4
MaxComErrors == 1
MaxPasses == 18
PageInches == 9
max_page == 14
y_in_inches == 7
TopMargin == 1

PgPara(kind, height) == [kind |-> kind, height |-> height]
PageBreak == PgPara("break", 0)

\* where Word puts the paragraphs: <<page, y>> of each, y from the top of
\* the page
RECURSIVE lay_out(_, _, _, _)
lay_out(paras, i, page, offset) ==
    IF i > Len(paras) THEN <<>>
    ELSE LET p == paras[i]
         IN  IF p.kind = "break"
             THEN <<[page |-> page, y |-> TopMargin + offset]>>
                      \o lay_out(paras, i + 1, page + 1, 0)
             ELSE IF offset + p.height > PageInches
             THEN <<[page |-> page + 1, y |-> TopMargin]>>
                      \o lay_out(paras, i + 1, page + 1, p.height)
             ELSE <<[page |-> page, y |-> TopMargin + offset]>>
                      \o lay_out(paras, i + 1, page, offset + p.height)

Layout(paras) == lay_out(paras, 1, 1, 0)

\* lines 60 and 73: the two conditions that ask for a break before
\* paragraph i + 1 (i counts from 0)
heading_trigger(paras, i) ==
    /\ paras[i + 1].kind = "heading1"
    /\ Layout(paras)[i + 1].y > y_in_inches
bold_trigger(paras, i) ==
    /\ paras[i + 1].kind = "bold"
    /\ Layout(paras)[i + 2].y < Layout(paras)[i + 1].y
    /\ Layout(paras)[i + 1].y > TopMargin

\* lines 61-69, 74-82: the break goes to the start of the paragraph before
\* the one under the scan, or to the start of the first paragraph
insert_break(paras, i) ==
    IF i > 0
    THEN SubSeq(paras, 1, i - 1) \o <<PageBreak>> \o SubSeq(paras, i, Len(paras))
    ELSE <<PageBreak>> \o paras

\* line 42: the scan gives up past the page cap
past_max_page_m(page) == FALSE
past_max_page(page) == page > max_page

\* where the scan goes after an insertion: line 71 / 84, break
after_insert_m(i) == "scan"
after_insert(i) == "save"

\* the while condition of line 19
loop_goes_on_m(flag) == TRUE
loop_goes_on(flag) == flag

\* the paragraphs a document is made of: a line of heading or bold text, a
\* table row, and body text of half a page and of nearly a page
PgParaChoices ==
    { PgPara("heading1", 1), PgPara("bold", 1), PgPara("table", 4),
      PgPara("normal", 4), PgPara("normal", 8) }
PgDocs ==
    UNION { [1..n -> PgParaChoices] : n \in 1..MaxPgParas }

PgIdle ==
    /\ pgDisk = <<>>
    /\ pgDoc = <<>>
    /\ pgOpen = FALSE
    /\ inserted_break = FALSE
    /\ pass_count = 0
    /\ pgI = 0
    /\ pgErrors = 0
    /\ pgInserted = 0
    /\ pgLog = <<>>
    /\ pgPc = "off"

\* lines 7-17
PgInit ==
    /\ pgDisk \in PgDocs
    /\ pgDoc = <<>>
    /\ pgOpen = FALSE
    /\ inserted_break = TRUE
    /\ pass_count = 0
    /\ pgI = 0
    /\ pgErrors = 0
    /\ pgInserted = 0
    /\ pgLog = <<>>
    /\ pgPc = "test"

\* line 19-20: while inserted_break: inserted_break = False; line 99 when
\* the loop ends
PgTest ==
    /\ pgPc = "test"
    /\ IF loop_goes_on(inserted_break)
       THEN /\ inserted_break' = FALSE
            /\ pgPc' = "open"
       ELSE /\ pgPc' = "done"
            /\ UNCHANGED inserted_break
    /\ UNCHANGED <<pgDisk, pgDoc, pgOpen, pass_count, pgI, pgErrors, pgInserted, pgLog>>
    /\ UNCHANGED notPg

\* lines 22-26: Documents.Open, Repaginate, count, i = 0.  A document that a
\* failed pass left open is handed out again as it is, or read from disk.
PgOpenDoc ==
    /\ pgPc = "open"
    /\ pass_count < MaxPasses
    /\ \E fresh \in BOOLEAN :
          pgDoc' = IF pgOpen /\ ~fresh THEN pgDoc ELSE pgDisk
    /\ pgOpen' = TRUE
    /\ pgI' = 0
    /\ pgInserted' = 0
    /\ pgPc' = "scan"
    /\ UNCHANGED <<pgDisk, inserted_break, pass_count, pgErrors, pgLog>>
    /\ UNCHANGED notPg

\* lines 27-86: one turn of the inner loop
PgScan ==
    /\ pgPc = "scan"
    /\ IF ~(pgI < Len(pgDoc) - 1)
       THEN /\ pgPc' = "save"
            /\ UNCHANGED <<pgDoc, inserted_break, pgI, pgInserted>>
       ELSE IF pgDoc[pgI + 1].kind = "table"
       THEN /\ pgI' = pgI + 1
            /\ UNCHANGED <<pgDoc, inserted_break, pgInserted, pgPc>>
       ELSE IF past_max_page(Layout(pgDoc)[pgI + 1].page)
       THEN /\ pgPc' = "save"
            /\ UNCHANGED <<pgDoc, inserted_break, pgI, pgInserted>>
       ELSE IF heading_trigger(pgDoc, pgI) \/ bold_trigger(pgDoc, pgI)
       THEN /\ pgDoc' = insert_break(pgDoc, pgI)
            /\ inserted_break' = TRUE
            /\ pgInserted' = pgInserted + 1
            /\ pgPc' = after_insert(pgI)
            /\ UNCHANGED pgI
       ELSE /\ pgI' = pgI + 1
            /\ UNCHANGED <<pgDoc, inserted_break, pgInserted, pgPc>>
    /\ UNCHANGED <<pgDisk, pgOpen, pass_count, pgErrors, pgLog>>
    /\ UNCHANGED notPg

\* lines 88-91 and 97: Save, Close, sleep, pass_count += 1
PgSaveClose ==
    /\ pgPc = "save"
    /\ pgDisk' = pgDoc
    /\ pgOpen' = FALSE
    /\ pass_count' = pass_count + 1
    /\ pgLog' = Append(pgLog, [inserted |-> pgInserted, failed |-> FALSE])
    /\ pgPc' = "test"
    /\ UNCHANGED <<pgDoc, inserted_break, pgI, pgErrors, pgInserted>>
    /\ UNCHANGED notPg

\* lines 92-96: a call into Word raises com_error: sleep, CoInitialize,
\* continue; the document is not closed and pass_count is not counted up
PgComError ==
    /\ pgPc \in {"open", "scan", "save"}
    /\ pgErrors < MaxComErrors
    /\ pgErrors' = pgErrors + 1
    /\ pgLog' = Append(pgLog, [inserted |-> IF pgPc = "open" THEN 0 ELSE pgInserted,
                               failed |-> TRUE])
    /\ pgPc' = "test"
    /\ UNCHANGED <<pgDisk, pgDoc, pgOpen, inserted_break, pass_count, pgI, pgInserted>>
    /\ UNCHANGED notPg

PgNext == PgTest \/ PgOpenDoc \/ PgScan \/ PgSaveClose \/ PgComError

(***************************************************************************)
(* THE QUOTE: QuoteModel (models/quote_model.py), QuoteViewModel           *)
(* (viewmodels/quote_viewmodel.py) and the calls of the bridge             *)
(* (views/pywebview_api.py).  Quote objects live on a heap and are named   *)
(* by their place in it, so that two names of one object can be told from  *)
(* two equal objects.  A dict is the sequence of its entries, a dotted key *)
(* the sequence of its parts, as for the repeatable groups above.          *)
(***************************************************************************)
MaxQuoteObjs == 3
MaxQuoteCalls == 5

Key1(a) == <<"data", a>>
Key2(a, b) == <<"data", a, b>>
Key3(a, b, c) == <<"data", a, b, c>>

\* models/headers.py: the categories of all_categories_order with their
\* key_data, those of the keys the model sets; dynamic is membership in
\* categories_with_add_button
KeyTable ==
    << [dynamic |-> FALSE, bases |-> <<Key1("quoteNumber")>>],
       [dynamic |-> FALSE,
        bases |-> <<Key2("customercontact", "name"), Key2("customercontact", "telephone"),
                    Key2("customercontact", "email"), Key2("customercontact", "title")>>],
       [dynamic |-> TRUE, bases |-> <<Key3("systemDesc", "name", "1")>>] >>

\* the last parts of the dynamic keys the model sets, in the order of
\* int(x.split(".")[-1])
IndexParts == <<"1", "2">>

\* a Quote as load_from_xml and __init__ construct it
Quote(id, data, quote_type) == [id |-> id, data |-> data, quote_type |-> quote_type]
BlankQuote(id) == Quote(id, <<>>, "final")

\* line 74: self.quote_type = "final", assigned nowhere else
vm_quote_type == "final"

od_del(items, k) == SelectSeq(items, LAMBDA e : e.k # k)

\* _collect_keys(quote_data): the dotted keys of the leaves, in dict order
collect_keys(d) ==
    LET pairs == flatten_pairs(d, <<"data">>, 1)
    IN  [i \in 1..Len(pairs) |-> pairs[i].k]

SeqToSet(s) == { s[i] : i \in 1..Len(s) }
StartsWith(k, prefix) == Len(k) >= Len(prefix) /\ SubSeq(k, 1, Len(prefix)) = prefix

\* line 102
is_flat_map(d) ==
    d # <<>> /\ \A i \in 1..Len(d) : StartsWith(d[i].k, <<"data">>) /\ Len(d[i].k) > 1

\* lines 118-121: sorted(..., key=int of the last part)
RECURSIVE dyn_keys(_, _, _)
dyn_keys(present, prefix, n) ==
    IF n > Len(IndexParts) THEN <<>>
    ELSE LET k == prefix \o <<IndexParts[n]>>
         IN  (IF k \in present THEN <<k>> ELSE <<>>) \o dyn_keys(present, prefix, n + 1)

RECURSIVE static_keys(_, _, _)
static_keys(present, bases, i) ==
    IF i > Len(bases) THEN <<>>
    ELSE (IF bases[i] \in present THEN <<bases[i]>> ELSE <<>>)
             \o static_keys(present, bases, i + 1)

RECURSIVE dynamic_keys(_, _, _)
dynamic_keys(present, bases, i) ==
    IF i > Len(bases) THEN <<>>
    ELSE dyn_keys(present, SubSeq(bases[i], 1, Len(bases[i]) - 1), 1)
             \o dynamic_keys(present, bases, i + 1)

\* lines 111-127: the keys that are written, in the order of the table
RECURSIVE ordered_keys(_, _)
ordered_keys(present, c) ==
    IF c > Len(KeyTable) THEN <<>>
    ELSE (IF KeyTable[c].dynamic
          THEN dynamic_keys(present, KeyTable[c].bases, 1)
          ELSE static_keys(present, KeyTable[c].bases, 1))
             \o ordered_keys(present, c + 1)

\* lines 139-148: drill into the nested dict; a value that is no str gives ""
RECURSIVE drill(_, _)
drill(d, parts) ==
    IF ~od_has(d, <<Head(parts)>>) THEN ""
    ELSE LET curr == od_get(d, <<Head(parts)>>)
         IN  IF Len(parts) = 1
             THEN (IF curr.t = "value" THEN curr.v ELSE "")
             ELSE (IF curr.t = "dict" THEN drill(curr.items, Tail(parts)) ELSE "")

NoFile == [exists |-> FALSE, quoteType |-> "", elems |-> <<>>]

\* save_to_xml, lines 75-156: <quoteType>, then one element for each ordered key
xml_of(quote_data, quote_type) ==
    LET present == IF is_flat_map(quote_data)
                   THEN { quote_data[i].k : i \in 1..Len(quote_data) }
                   ELSE SeqToSet(collect_keys(quote_data))
        keys == ordered_keys(present, 1)
    IN  [exists |-> TRUE,
         quoteType |-> quote_type,
         elems |-> [i \in 1..Len(keys) |->
                      [tag |-> keys[i],
                       text |-> IF is_flat_map(quote_data)
                                THEN od_get(quote_data, keys[i]).v
                                ELSE drill(quote_data, Tail(keys[i]))]]]

\* load_from_xml, lines 212-222: every <data.xxx> element is merged into data
RECURSIVE merge_elems(_, _, _)
merge_elems(data, elems, i) ==
    IF i > Len(elems) THEN data
    ELSE merge_elems(IF StartsWith(elems[i].tag, <<"data">>) /\ Len(elems[i].tag) > 1
                     THEN merge_nested_dict(data, Tail(elems[i].tag), Value(elems[i].text))
                     ELSE data,
                     elems, i + 1)

loaded_quote(file) == Quote(0, merge_elems(<<>>, file.elems, 1), file.quoteType)

\* the row of the contacts table get_contact_by_id finds for id 7
ContactRow == [name |-> "Ann", email |-> "ann@example.com", title |-> "Buyer", phone |-> "555"]
IsIntish(v) == v = "7"

\* hydrate_contact_fields, lines 466-490; found: the contact is in the table
hydrate_contact_fields(contact_obj, phone_key, found) ==
    IF ~od_has(contact_obj, <<"name">>) THEN contact_obj
    ELSE IF od_get(contact_obj, <<"name">>).t # "value" THEN contact_obj
    ELSE IF ~IsIntish(od_get(contact_obj, <<"name">>).v) THEN contact_obj
    ELSE IF ~found THEN contact_obj
    ELSE LET a == od_set(contact_obj, <<"name">>, Value(ContactRow.name))
             b == od_set(a, <<"email">>, Value(ContactRow.email))
             c == od_set(b, <<"title">>, Value(ContactRow.title))
             e == od_set(c, <<phone_key>>, Value(ContactRow.phone))
         IN  od_del(e, <<"phone">>)

\* lines 405-410: the contact dict of data_copy is the contact dict of the
\* stored quote (dict(first_quote.data) copies one level), so what
\* hydrate_contact_fields writes into it is written into the stored quote
hydrated(data, name, phone_key, found) ==
    IF od_has(data, <<name>>) /\ od_get(data, <<name>>).t = "dict"
    THEN od_set(data, <<name>>,
                ODict(hydrate_contact_fields(od_get(data, <<name>>).items, phone_key, found)))
    ELSE data

\* lines 399-417: the context handed to render_document
jinja_data(data) ==
    LET data_copy == od_set(data, <<"quoteType">>, Value(vm_quote_type))
    IN  IF od_has(data_copy, <<"systemDesc">>)
        THEN od_set(data_copy, <<"systemDesc">>,
                    IF od_get(data_copy, <<"systemDesc">>).t = "dict"
                    THEN ODict(flatten_system_desc(od_get(data_copy, <<"systemDesc">>)))
                    ELSE od_get(data_copy, <<"systemDesc">>))
        ELSE data_copy

\* what the page sends: set_field(full_key, value)
FieldInputs ==
    { Entry(Key1("quoteNumber"), Value("Q1")),
      Entry(Key1("notes"), Value("N")),
      Entry(Key2("customercontact", "name"), Value("7")),
      Entry(Key3("systemDesc", "name", "1"), Value("S")),
      Entry(<<"quoteNumber">>, Value("Q2")) }
\* ... and set_all_fields(viewStore)
StoreInputs ==
    { <<Entry(Key1("quoteNumber"), Value("Q3")), Entry(Key2("customercontact", "phone"), Value("111"))>>,
      <<Entry(Key2("customercontact", "name"), Value("Bob")), Entry(Key1("notes"), Value("M"))>> }
QuoteTypes == {"budgetary", "final"}

first_quote == quotes[1].val
NoReport == [quoteType |-> "", fields |-> <<>>]
NoSave == [saved |-> FALSE, data |-> <<>>, quote_type |-> ""]

QtIdle ==
    /\ qHeap = <<>>
    /\ quotes = <<>>
    /\ quote = 0
    /\ qFile = NoFile
    /\ qSave = NoSave
    /\ qReport = NoReport
    /\ qContext = <<>>
    /\ qLast = "off"
    /\ qCalls = 0

\* QuoteModel.__init__ and QuoteViewModel.__init__, lines 60-74: the model
\* holds no quote, the view model creates one under key 1
QtInit ==
    /\ qHeap = <<BlankQuote(1)>>
    /\ quotes = <<Entry(1, 1)>>
    /\ quote = 1
    /\ qFile = NoFile
    /\ qSave = NoSave
    /\ qReport = NoReport
    /\ qContext = <<>>
    /\ qLast = "init"
    /\ qCalls = 0

QtCall(name) ==
    /\ qLast # "off"
    /\ qCalls < MaxQuoteCalls
    /\ qCalls' = qCalls + 1
    /\ qLast' = name

\* set_field, lines 167-175, on the heap
set_field(heap, full_key, value) ==
    IF StartsWith(full_key, <<"data">>) /\ Len(full_key) > 1
    THEN [heap EXCEPT ![quote].data = merge_nested_dict(@, Tail(full_key), value)]
    ELSE heap

RECURSIVE set_fields(_, _, _)
set_fields(heap, flat_map, i) ==
    IF i > Len(flat_map) THEN heap
    ELSE set_fields(set_field(heap, flat_map[i].k, flat_map[i].val), flat_map, i + 1)

\* pywebview_api.new_quote, lines 122-124
QtNewQuote ==
    /\ QtCall("new_quote")
    /\ quotes' = <<>>
    /\ UNCHANGED <<qHeap, quote, qFile, qSave, qReport, qContext>>
    /\ UNCHANGED notQt

QtSetField ==
    /\ QtCall("set_field")
    /\ \E f \in FieldInputs : qHeap' = set_field(qHeap, f.k, f.val)
    /\ UNCHANGED <<quotes, quote, qFile, qSave, qReport, qContext>>
    /\ UNCHANGED notQt

\* set_all_fields, lines 279-295
QtSetAllFields ==
    /\ QtCall("set_all_fields")
    /\ quotes = <<>> => Len(qHeap) < MaxQuoteObjs
    /\ \E flat_map \in StoreInputs :
          LET heap == IF quotes = <<>> THEN Append(qHeap, BlankQuote(1)) ELSE qHeap
          IN  /\ qHeap' = set_fields(heap, flat_map, 1)
              /\ quotes' = IF quotes = <<>> THEN <<Entry(1, Len(heap))>> ELSE quotes
    /\ UNCHANGED <<quote, qFile, qSave, qReport, qContext>>
    /\ UNCHANGED notQt

\* save_quote, lines 300-336, and save_to_xml.  With no field set every key
\* of the empty dict "has a dot" and line 313 raises before anything is
\* stored; otherwise the data is stored as it is, the quote is put under key
\* 0 and the first quote of the model is written.
QtSaveQuote ==
    /\ QtCall("save_quote")
    /\ \E quote_type \in QuoteTypes :
          IF qHeap[quote].data = <<>>
          THEN UNCHANGED <<qHeap, quotes, qFile, qSave>>
          ELSE LET heap == [qHeap EXCEPT ![quote].id = 0]
                   dict == od_set(quotes, 0, quote)
                   quote_data == heap[dict[1].val].data
               IN  /\ qHeap' = heap
                   /\ quotes' = dict
                   /\ qFile' = xml_of(quote_data, quote_type)
                   /\ qSave' = [saved |-> TRUE, data |-> heap[quote].data,
                                quote_type |-> quote_type]
    /\ UNCHANGED <<quote, qReport, qContext>>
    /\ UNCHANGED notQt

\* open_quote, lines 152-188, with load_quote and load_from_xml: the model
\* gets a new dict holding one new Quote; the report is made of
\* vm.quote_type and vm.get_all_fields()
QtOpenQuote ==
    /\ QtCall("open_quote")
    /\ qFile.exists
    /\ Len(qHeap) < MaxQuoteObjs
    /\ qHeap' = Append(qHeap, loaded_quote(qFile))
    /\ quotes' = <<Entry(0, Len(qHeap) + 1)>>
    /\ qReport' = [quoteType |-> vm_quote_type, fields |-> qHeap[quote].data]
    /\ UNCHANGED <<quote, qFile, qSave, qContext>>
    /\ UNCHANGED notQt

\* submit_quote, lines 379-422; with no quote in the model next(iter(...))
\* raises
QtSubmitQuote ==
    /\ QtCall("submit_quote")
    /\ IF quotes = <<>>
       THEN UNCHANGED <<qHeap, qContext>>
       ELSE \E found \in BOOLEAN :
               LET d1 == hydrated(qHeap[first_quote].data, "customercontact", "telephone", found)
                   d2 == hydrated(d1, "alliancecontact", "cell", found)
               IN  /\ qHeap' = [qHeap EXCEPT ![first_quote].data = d2]
                   /\ qContext' = <<Entry(<<"data">>, ODict(jinja_data(d2)))>>
    /\ UNCHANGED <<quotes, quote, qFile, qSave, qReport>>
    /\ UNCHANGED notQt

QtNext ==
    \/ QtNewQuote
    \/ QtSetField
    \/ QtSetAllFields
    \/ QtSaveQuote
    \/ QtOpenQuote
    \/ QtSubmitQuote

(***************************************************************************)
(* THE CONNECTION POOL (services/connection_pool.py) as the threads of     *)
(* DatabaseManager.get_connection use it, and close_all_connections        *)
(* (services/database_manager.py), which takes the manager's lock and not  *)
(* the pool's.  A connection is named by the order of its creation.        *)
(***************************************************************************)
MaxThreads == 3
MaxCreated == 3
max_connections == 2

Threads == 1..MaxThreads
NoThread == 0
NoConn == 0

InList(c) == \E i \in 1..Len(connections) : connections[i] = c

\* lines 139-140: the first connection of the list that is not in use
FirstFree ==
    IF \E i \in 1..Len(connections) : connections[i] \notin in_use
    THEN connections[CHOOSE i \in 1..Len(connections) :
                        /\ connections[i] \notin in_use
                        /\ \A j \in 1..(i - 1) : connections[j] \in in_use]
    ELSE NoConn

\* line 141: conn.in_use = True
mark_in_use_m(used, c) == used
mark_in_use(used, c) == used \cup {c}

\* BoundedSemaphore.release(): ValueError when the counter is at its bound
sem_release(value) == IF value < max_connections THEN value + 1 ELSE value

PlIdle ==
    /\ connections = <<>>
    /\ in_use = {}
    /\ connection_semaphore = 0
    /\ plLock = NoThread
    /\ plPc = [t \in Threads |-> "off"]
    /\ plHeld = [t \in Threads |-> NoConn]
    /\ plClosed = {}
    /\ plCreated = 0
    /\ plClosing = "off"
    /\ plLost = 0

\* ConnectionPool.__init__, lines 53-58
PlInit ==
    /\ connections = <<>>
    /\ in_use = {}
    /\ connection_semaphore = max_connections
    /\ plLock = NoThread
    /\ plPc = [t \in Threads |-> "idle"]
    /\ plHeld = [t \in Threads |-> NoConn]
    /\ plClosed = {}
    /\ plCreated = 0
    /\ plClosing = "idle"
    /\ plLost = 0

\* lines 136-137: connection_semaphore.acquire(timeout=5); with no permit
\* for five seconds get_connection raises
PlAcquire ==
    \E t \in Threads :
    /\ plPc[t] = "idle"
    /\ IF connection_semaphore > 0
       THEN /\ connection_semaphore' = connection_semaphore - 1
            /\ plPc' = [plPc EXCEPT ![t] = "acquired"]
       ELSE /\ plPc' = [plPc EXCEPT ![t] = "refused"]
            /\ UNCHANGED connection_semaphore
    /\ UNCHANGED <<connections, in_use, plLock, plHeld, plClosed, plCreated, plClosing, plLost>>
    /\ UNCHANGED notPl

\* the caller of a get_connection that raised goes on
PlRefused ==
    \E t \in Threads :
    /\ plPc[t] = "refused"
    /\ plPc' = [plPc EXCEPT ![t] = "idle"]
    /\ UNCHANGED <<connections, in_use, connection_semaphore, plLock, plHeld, plClosed,
                   plCreated, plClosing, plLost>>
    /\ UNCHANGED notPl

\* lines 138-144: with self.lock, reuse the first connection not in use
PlScan ==
    \E t \in Threads :
    /\ plPc[t] = "acquired"
    /\ plLock = NoThread
    /\ IF FirstFree # NoConn
       THEN /\ in_use' = mark_in_use(in_use, FirstFree)
            /\ plHeld' = [plHeld EXCEPT ![t] = FirstFree]
            /\ plPc' = [plPc EXCEPT ![t] = "holding"]
            /\ UNCHANGED plLock
       ELSE /\ plLock' = t
            /\ plPc' = [plPc EXCEPT ![t] = "create"]
            /\ UNCHANGED <<in_use, plHeld>>
    /\ UNCHANGED <<connections, connection_semaphore, plClosed, plCreated, plClosing, plLost>>
    /\ UNCHANGED notPl

\* lines 145-150: still in the lock, create a connection when the list is
\* not full; _create_connection may raise (file lock timeout, sqlite3
\* error), and the exception leaves get_connection with the permit taken.
\* With the list full the permit is given back and get_connection raises.
PlCreate ==
    \E t \in Threads :
    /\ plPc[t] = "create"
    /\ plLock' = NoThread
    /\ IF Len(connections) < max_connections
       THEN \E raises \in BOOLEAN :
               IF raises
               THEN /\ plPc' = [plPc EXCEPT ![t] = "refused"]
                    /\ plLost' = plLost + 1
                    /\ UNCHANGED <<connections, in_use, plHeld, plCreated, connection_semaphore>>
               ELSE /\ plCreated < MaxCreated
                    /\ plCreated' = plCreated + 1
                    /\ connections' = Append(connections, plCreated + 1)
                    /\ in_use' = mark_in_use(in_use, plCreated + 1)
                    /\ plHeld' = [plHeld EXCEPT ![t] = plCreated + 1]
                    /\ plPc' = [plPc EXCEPT ![t] = "holding"]
                    /\ UNCHANGED <<connection_semaphore, plLost>>
       ELSE /\ connection_semaphore' = sem_release(connection_semaphore)
            /\ plPc' = [plPc EXCEPT ![t] = "refused"]
            /\ UNCHANGED <<connections, in_use, plHeld, plCreated, plLost>>
    /\ UNCHANGED <<plClosed, plClosing>>
    /\ UNCHANGED notPl

\* release_connection, lines 159-167, from the finally of
\* DatabaseManager.get_connection: a connection that is not in the list
\* gives a warning and no permit back
PlRelease ==
    \E t \in Threads :
    /\ plPc[t] = "holding"
    /\ plLock = NoThread
    /\ IF InList(plHeld[t])
       THEN /\ in_use' = in_use \ {plHeld[t]}
            /\ connection_semaphore' = sem_release(connection_semaphore)
            /\ UNCHANGED plLost
       ELSE /\ plLost' = plLost + 1
            /\ UNCHANGED <<in_use, connection_semaphore>>
    /\ plHeld' = [plHeld EXCEPT ![t] = NoConn]
    /\ plPc' = [plPc EXCEPT ![t] = "idle"]
    /\ UNCHANGED <<connections, plLock, plClosed, plCreated, plClosing>>
    /\ UNCHANGED notPl

\* close_all_connections, lines 230-235: close every connection of the list
PlCloseAll ==
    /\ plClosing = "idle"
    /\ plClosed' = plClosed \cup {connections[i] : i \in 1..Len(connections)}
    /\ plClosing' = "closed"
    /\ UNCHANGED <<connections, in_use, connection_semaphore, plLock, plPc, plHeld,
                   plCreated, plLost>>
    /\ UNCHANGED notPl

\* line 236: pool.connections.clear()
PlClear ==
    /\ plClosing = "closed"
    /\ connections' = <<>>
    /\ in_use' = {}
    /\ plClosing' = "idle"
    /\ UNCHANGED <<connection_semaphore, plLock, plPc, plHeld, plClosed, plCreated, plLost>>
    /\ UNCHANGED notPl

PlNext ==
    \/ PlAcquire
    \/ PlRefused
    \/ PlScan
    \/ PlCreate
    \/ PlRelease
    \/ PlCloseAll
    \/ PlClear


(***************************************************************************)
(* THE SYNC SERVICE (services/sync_service.py): one caller thread starts   *)
(* and stops the worker, any thread logs changes, and the worker thread    *)
(* runs _sync_worker.  A change is named by the order of its log_change;   *)
(* the termination signal that stop_sync_thread puts is Signal.              *)
(***************************************************************************)
MaxChanges == 2
MaxSyncCalls == 4

Changes == 1..MaxChanges
\* None, as stop_sync_thread puts it on the queue (line 156)
Signal == 0

\* Thread.is_alive(): from start() until _sync_worker returns
is_alive(thread) == thread \in {"test", "get", "process"}

\* line 224, _needs_sync
_needs_sync(status) == status \in {"PENDING", "FAILED"}

\* lines 188-211, _process_sync_record: a record that needs it goes through
\* IN_PROGRESS to COMPLETED (_detect_conflict is False and _sync_to_server
\* is True, lines 237 and 265); any other record is left as it is
_process_sync_record(status) == IF _needs_sync(status) THEN "COMPLETED" ELSE status

SyIdle ==
    /\ sync_queue = <<>>
    /\ running = FALSE
    /\ sync_thread = "off"
    /\ syRecord = Signal
    /\ syStatus = [c \in Changes |-> "unlogged"]
    /\ syCaller = "off"
    /\ syCalls = 0

\* SyncService.__init__, lines 67-75
SyInit ==
    /\ sync_queue = <<>>
    /\ running = FALSE
    /\ sync_thread = "none"
    /\ syRecord = Signal
    /\ syStatus = [c \in Changes |-> "unlogged"]
    /\ syCaller = "idle"
    /\ syCalls = 0

\* lines 144-148, start_sync_thread: nothing when the thread is alive
SyStart ==
    /\ syCaller = "idle"
    /\ syCalls < MaxSyncCalls
    /\ syCalls' = syCalls + 1
    /\ IF is_alive(sync_thread)
       THEN UNCHANGED <<running, sync_thread>>
       ELSE /\ running' = TRUE
            /\ sync_thread' = "test"
    /\ UNCHANGED <<sync_queue, syRecord, syStatus, syCaller>>
    /\ UNCHANGED notSy

\* line 154, stop_sync_thread: self.running = False
SyStopFlag ==
    /\ syCaller = "idle"
    /\ syCalls < MaxSyncCalls
    /\ syCalls' = syCalls + 1
    /\ running' = FALSE
    /\ syCaller' = "signal"
    /\ UNCHANGED <<sync_queue, sync_thread, syRecord, syStatus>>
    /\ UNCHANGED notSy

\* lines 155-156: the termination signal is put when the thread is alive
SyStopSignal ==
    /\ syCaller = "signal"
    /\ IF is_alive(sync_thread)
       THEN /\ sync_queue' = Append(sync_queue, Signal)
            /\ syCaller' = "join"
       ELSE /\ syCaller' = "idle"
            /\ UNCHANGED sync_queue
    /\ UNCHANGED <<running, sync_thread, syRecord, syStatus, syCalls>>
    /\ UNCHANGED notSy

\* lines 157-158: join returns when the worker has returned (the worker
\* leaves its loop within one get timeout and one record of the flag's
\* change, far inside the thirty seconds of the join)
SyStopJoin ==
    /\ syCaller = "join"
    /\ ~is_alive(sync_thread)
    /\ syCaller' = "idle"
    /\ UNCHANGED <<sync_queue, running, sync_thread, syRecord, syStatus, syCalls>>
    /\ UNCHANGED notSy

\* lines 298-311, log_change, on any thread and in any state of the service
SyLogChange ==
    \E c \in Changes :
        /\ syStatus[c] = "unlogged"
        /\ \A b \in 1..(c - 1) : syStatus[b] # "unlogged"
        /\ syStatus' = [syStatus EXCEPT ![c] = "PENDING"]
        /\ sync_queue' = Append(sync_queue, c)
        /\ UNCHANGED <<running, sync_thread, syRecord, syCaller, syCalls>>
        /\ UNCHANGED notSy

\* line 164: while self.running
SyTest ==
    /\ sync_thread = "test"
    /\ sync_thread' = IF running THEN "get" ELSE "dead"
    /\ UNCHANGED <<sync_queue, running, syRecord, syStatus, syCaller, syCalls>>
    /\ UNCHANGED notSy

\* lines 167-169 and 172-173: get takes the head of the queue, and None
\* breaks the loop; on an empty queue it raises Empty after one second and
\* the loop continues
SyGet ==
    /\ sync_thread = "get"
    /\ IF sync_queue = <<>>
       THEN /\ sync_thread' = "test"
            /\ UNCHANGED <<sync_queue, syRecord>>
       ELSE /\ sync_queue' = Tail(sync_queue)
            /\ IF Head(sync_queue) = Signal
               THEN /\ sync_thread' = "dead"
                    /\ UNCHANGED syRecord
               ELSE /\ sync_thread' = "process"
                    /\ syRecord' = Head(sync_queue)
    /\ UNCHANGED <<running, syStatus, syCaller, syCalls>>
    /\ UNCHANGED notSy

\* lines 170-171: _process_sync_record(record), task_done()
SyProcess ==
    /\ sync_thread = "process"
    /\ syStatus' = [syStatus EXCEPT ![syRecord] = _process_sync_record(@)]
    /\ syRecord' = Signal
    /\ sync_thread' = "test"
    /\ UNCHANGED <<sync_queue, running, syCaller, syCalls>>
    /\ UNCHANGED notSy

SyNext ==
    \/ SyStart
    \/ SyStopFlag
    \/ SyStopSignal
    \/ SyStopJoin
    \/ SyLogChange
    \/ SyTest
    \/ SyGet
    \/ SyProcess
(***************************************************************************)
(* Specifications                                                          *)
(***************************************************************************)
InitImg == ImgInit /\ RichIdle /\ RdIdle /\ ShimIdle /\ RunIdle /\ SzIdle /\ FlIdle /\ LvIdle /\ PgIdle /\ QtIdle /\ PlIdle /\ SyIdle
InitRich == RichInit /\ ImgIdle /\ RdIdle /\ ShimIdle /\ RunIdle /\ SzIdle /\ FlIdle /\ LvIdle /\ PgIdle /\ QtIdle /\ PlIdle /\ SyIdle
InitRd == RdInit /\ ImgIdle /\ RichIdle /\ ShimIdle /\ RunIdle /\ SzIdle /\ FlIdle /\ LvIdle /\ PgIdle /\ QtIdle /\ PlIdle /\ SyIdle
InitShim == ShimInit /\ ImgIdle /\ RichIdle /\ RdIdle /\ RunIdle /\ SzIdle /\ FlIdle /\ LvIdle /\ PgIdle /\ QtIdle /\ PlIdle /\ SyIdle
InitRun == RunInit /\ ImgIdle /\ RichIdle /\ RdIdle /\ ShimIdle /\ SzIdle /\ FlIdle /\ LvIdle /\ PgIdle /\ QtIdle /\ PlIdle /\ SyIdle
InitRunSolo == RunSoloInit /\ ImgIdle /\ RichIdle /\ RdIdle /\ ShimIdle /\ SzIdle /\ FlIdle /\ LvIdle /\ PgIdle /\ QtIdle /\ PlIdle /\ SyIdle
InitSz == SzInit /\ ImgIdle /\ RichIdle /\ RdIdle /\ ShimIdle /\ RunIdle /\ FlIdle /\ LvIdle /\ PgIdle /\ QtIdle /\ PlIdle /\ SyIdle
InitFl == FlInit /\ ImgIdle /\ RichIdle /\ RdIdle /\ ShimIdle /\ RunIdle /\ SzIdle /\ LvIdle /\ PgIdle /\ QtIdle /\ PlIdle /\ SyIdle
InitLv == LvInit /\ ImgIdle /\ RichIdle /\ RdIdle /\ ShimIdle /\ RunIdle /\ SzIdle /\ FlIdle /\ PgIdle /\ QtIdle /\ PlIdle /\ SyIdle
InitPg == PgInit /\ ImgIdle /\ RichIdle /\ RdIdle /\ ShimIdle /\ RunIdle /\ SzIdle /\ FlIdle /\ LvIdle /\ QtIdle /\ PlIdle /\ SyIdle
InitQt == QtInit /\ ImgIdle /\ RichIdle /\ RdIdle /\ ShimIdle /\ RunIdle /\ SzIdle /\ FlIdle /\ LvIdle /\ PgIdle /\ PlIdle /\ SyIdle
InitPl == PlInit /\ ImgIdle /\ RichIdle /\ RdIdle /\ ShimIdle /\ RunIdle /\ SzIdle /\ FlIdle /\ LvIdle /\ PgIdle /\ QtIdle /\ SyIdle
InitSy == SyInit /\ ImgIdle /\ RichIdle /\ RdIdle /\ ShimIdle /\ RunIdle /\ SzIdle /\ FlIdle /\ LvIdle /\ PgIdle /\ QtIdle /\ PlIdle

Init == InitImg \/ InitRich \/ InitRd \/ InitShim \/ InitRun \/ InitRunSolo \/ InitSz \/ InitFl \/ InitLv \/ InitPg \/ InitQt \/ InitPl \/ InitSy
Next == ImgNext \/ RichNext \/ RdNext \/ ShimNext \/ RunNext \/ SzNext \/ FlNext \/ LvNext \/ PgNext \/ QtNext \/ PlNext \/ SyNext
Spec == Init /\ [][Next]_vars

SpecImg == InitImg /\ [][ImgNext]_vars
SpecRich == InitRich /\ [][RichNext]_vars
SpecRd == InitRd /\ [][RdNext]_vars
SpecShim == InitShim /\ [][ShimNext]_vars
SpecRun == InitRun /\ [][RunNext]_vars
SpecRunSolo == InitRunSolo /\ [][RunNext]_vars
SpecSz == InitSz /\ [][SzNext]_vars
SpecFl == InitFl /\ [][FlNext]_vars
SpecLv == InitLv /\ [][LvNext]_vars
SpecQt == InitQt /\ [][QtNext]_vars
SpecPl == InitPl /\ [][PlNext]_vars
SpecPg == InitPg /\ [][PgNext]_vars
SpecPgFair == SpecPg /\ WF_vars(PgNext)
SpecSy == InitSy /\ [][SyNext]_vars
\* the scheduler runs the worker thread when it can take a step, and the
\* caller inside stop_sync_thread; calls of start, stop and log_change are
\* up to the application
SpecSyFair ==
    /\ SpecSy
    /\ WF_vars(SyTest \/ SyGet \/ SyProcess)
    /\ WF_vars(SyStopSignal \/ SyStopJoin)
\* ------------------------------------------------------------ claims: images
\* every r:embed of a drawing has a Relationship, whose target is in word/media
Consistent(doc, rels, media) ==
    \A i \in 1..Len(doc) :
        doc[i].kind = "drawing" =>
            \E r \in rels : r.Id = doc[i].rid /\ r.Target \in media

\* C1: at every point of replace_image_markers_xml, whatever markers were
\* resolved or skipped, every relationship Id a drawing of document.xml
\* references has a Relationship entry in document.xml.rels whose media file
\* exists under word/media/ (in the package at docx_path and in the working
\* copy that is zipped back).
C1_DrawingsHaveRelsAndMedia ==
    /\ Consistent(pkgDoc, pkgRels, pkgMedia)
    /\ (workdir /\ imgPc # "idle") => Consistent(wDoc, wRels, wMedia)

\* a finished run that inserted one image and skipped another marker
C1_Witness ==
    /\ imgPc = "done"
    /\ \E a, b \in imgLog : a.level = "info" /\ b.level = "error"
    /\ \E i \in 1..Len(pkgDoc) :
          pkgDoc[i].kind = "drawing" /\ [level |-> "info", para |-> i] \in imgLog

\* the paragraph under the loop is a marker whose key resolves to no path or
\* to a path that is no existing file
AtMissingMarker ==
    /\ InLoop
    /\ wDoc[imgIdx].kind = "marker"
    /\ imgContext[wDoc[imgIdx].key] \in {"nopath", "nofile"}

\* C8: a marker whose key resolves to no path, or to a path that is not an
\* existing file, is stepped over without raising: the paragraph, the
\* relationships and the media files stay as they were and the loop goes on
\* to the next paragraph.
C8_MissingImageIsSkipped ==
    [][AtMissingMarker =>
          /\ imgPc' = "loop"
          /\ imgIdx' = imgIdx + 1
          /\ wDoc' = wDoc /\ wRels' = wRels /\ wMedia' = wMedia
          /\ pkgDoc' = pkgDoc /\ pkgRels' = pkgRels /\ pkgMedia' = pkgMedia]_vars

\* a skipped marker is still a marker in the finished package, and a marker
\* after it was processed and replaced
C8_Witness ==
    /\ imgPc = "done"
    /\ \E i, j \in 1..Len(pkgDoc) :
          /\ i < j
          /\ [level |-> "error", para |-> i] \in imgLog
          /\ pkgDoc[i].kind = "marker"
          /\ imgContext[pkgDoc[i].key] = "nofile"
          /\ [level |-> "info", para |-> j] \in imgLog

\* the paragraph under the loop is a marker whose file exists and is no image
AtUnreadableMarker ==
    /\ InLoop
    /\ wDoc[imgIdx].kind = "marker"
    /\ imgContext[wDoc[imgIdx].key] = "garbage"

\* C9: a marker whose file exists but cannot be read as an image is logged
\* and left in place, no relationship and no media file is added for it, and
\* the loop goes on to the next paragraph.
C9_UnreadableImageIsSkipped ==
    [][AtUnreadableMarker =>
          /\ imgPc' = "loop"
          /\ imgIdx' = imgIdx + 1
          /\ wDoc' = wDoc /\ wRels' = wRels /\ wMedia' = wMedia
          /\ [level |-> "error", para |-> imgIdx] \in imgLog']_vars


RelIds(rels) == {r.Id : r \in rels}
IdsDistinct(rels) == \A r, s \in rels : r.Id = s.Id => r = s

\* C18: the Relationship Ids of document.xml.rels are pairwise distinct
\* after any number of insertions, and a step of the loop that changes the
\* relationships adds exactly one entry, whose Id is the lowest rId<n> not
\* in use before, and leaves the entries that were there as they were.
C18_RelationshipIdsDistinctLowestUnused ==
    /\ [](IdsDistinct(pkgRels) /\ IdsDistinct(wRels))
    /\ [][(InLoop /\ wRels' # wRels) =>
             \E r \in wRels' :
                 /\ r \notin wRels
                 /\ wRels' = wRels \cup {r}
                 /\ r.Id \notin RelIds(wRels)
                 /\ \A j \in 1..(r.Id - 1) : j \in RelIds(wRels)]_vars

\* a finished run whose two insertions took rId2, the gap between the Ids
\* that were there, and then rId4
C18_Witness ==
    /\ imgPc = "done"
    /\ RelIds(pkgRels) = {1, 2, 3, 4}
    /\ {Rel(1, 1), Rel(3, 2)} \subseteq pkgRels
\* ------------------------------------------------------- claims: rich text
OpenKinds == {"ul", "ol", "li", "p", "b"}
CloserOf(k) ==
    CASE k = "/ul" -> "ul" [] k = "/ol" -> "ol" [] k = "/li" -> "li"
      [] k = "/p" -> "p" [] k = "/b" -> "b" [] OTHER -> "none"

\* every opened element is closed once, in nested order: a closing tag closes
\* the innermost open element, and nothing is open at the end
RECURSIVE Balanced(_, _, _)
Balanced(html, i, stack) ==
    IF i > Len(html) THEN stack = <<>>
    ELSE IF html[i].k \in OpenKinds
    THEN Balanced(html, i + 1, Append(stack, html[i].k))
    ELSE IF CloserOf(html[i].k) # "none"
    THEN /\ stack # <<>>
         /\ Last(stack) = CloserOf(html[i].k)
         /\ Balanced(html, i + 1, SubSeq(stack, 1, Len(stack) - 1))
    ELSE Balanced(html, i + 1, stack)

WellFormed(html) == Balanced(html, 1, <<>>)

\* the deepest nesting of lists that the opening tags reach
RECURSIVE ListDepth(_, _, _, _)
ListDepth(html, i, cur, best) ==
    IF i > Len(html) THEN best
    ELSE IF html[i].k = "ul"
    THEN ListDepth(html, i + 1, cur + 1, Max2(best, cur + 1))
    ELSE IF html[i].k = "/ul"
    THEN ListDepth(html, i + 1, cur - 1, best)
    ELSE ListDepth(html, i + 1, cur, best)

\* the ql-indent depths of the items of a Quill list, in order
InputItems(v) == extract_items(v.s, 1)
InputDepths(v) == [i \in 1..Len(InputItems(v)) |-> InputItems(v)[i].depth]

IsQuillHtml(v) == v.t = "html" /\ has_ql_indent(v.s)

\* C3: the HTML the Quill-HTML normalizer produces from <li> items with
\* ql-indent-N classes is well-formed: every <ul> and <li> it opens is closed
\* exactly once, in nested order; the items with indents 0, 1, 2 come out
\* three lists deep.
C3_NormalizedListsWellFormed ==
    (richPc # "in" /\ IsQuillHtml(richIn)) =>
        /\ WellFormed(richOut)
        /\ InputDepths(richIn) = <<0, 1, 2>> => ListDepth(richOut, 1, 0, 0) = 3

\* the elements open before position n, as positions of their opening tags;
\* a closing tag closes the innermost open element of its kind and all that
\* is open inside it
RECURSIVE OpenStack(_, _, _, _)
OpenStack(html, n, i, stack) ==
    IF i >= n THEN stack
    ELSE IF html[i].k \in OpenKinds
    THEN OpenStack(html, n, i + 1, Append(stack, i))
    ELSE IF CloserOf(html[i].k) # "none"
    THEN LET hits == {j \in 1..Len(stack) : html[stack[j]].k = CloserOf(html[i].k)}
             top == CHOOSE j \in hits : \A h \in hits : h <= j
         IN  OpenStack(html, n, i + 1,
                       IF hits = {} THEN stack ELSE SubSeq(stack, 1, top - 1))
    ELSE OpenStack(html, n, i + 1, stack)

\* positions of the <li> tags: an item holds text right after its tag, a
\* stub does not
LiPositions(html) == {i \in 1..Len(html) : html[i].k = "li"}
IsStub(html, i) ==
    IF i = Len(html) THEN TRUE ELSE html[i + 1].k \in {"ul", "ol", "li", "/li", "/ul", "/ol"}
ItemPositions(html) == {i \in LiPositions(html) : ~IsStub(html, i)}
\* the position of the n-th item
ItemPos(html, n) ==
    CHOOSE i \in ItemPositions(html) :
        Cardinality({j \in ItemPositions(html) : j <= i}) = n

\* the parent of item n of indent N > 0: the most recent preceding item of
\* indent N - 1 with nothing shallower than N between the two; 0 when the
\* level appears without such a parent
ParentOf(depths, n) ==
    LET parents == {j \in 1..(n - 1) :
                       /\ depths[j] = depths[n] - 1
                       /\ \A h \in (j + 1)..(n - 1) : depths[h] >= depths[n]}
    IN  IF parents = {} THEN 0 ELSE CHOOSE j \in parents : \A h \in parents : h <= j

\* item n of indent N > 0 sits in a list that is directly inside an <li>,
\* that <li> being its parent item, or a stub when it has none, and N items
\* or stubs enclose it
NestsStrictly(html, depths, n) ==
    LET stack == OpenStack(html, ItemPos(html, n), 1, <<>>)
        lis == {j \in 1..Len(stack) : html[stack[j]].k = "li"}
    IN  /\ Len(stack) >= 2
        /\ html[stack[Len(stack)]].k = "ul"
        /\ html[stack[Len(stack) - 1]].k = "li"
        /\ IF ParentOf(depths, n) = 0
           THEN IsStub(html, stack[Len(stack) - 1])
           ELSE stack[Len(stack) - 1] = ItemPos(html, ParentOf(depths, n))
        /\ Cardinality(lis) = depths[n]

\* the items of the input are the items of the output, in order, and each
\* of indent N > 0 nests strictly
NestsIn(html, depths) ==
    /\ Cardinality(ItemPositions(html)) = Len(depths)
    /\ \A n \in 1..Len(depths) : depths[n] > 0 => NestsStrictly(html, depths, n)

\* C4: in the output of the normalizer (the one the renderer calls and the
\* one of utilities/quill_lists.py) every item of indent N > 0 sits in a list
\* nested inside the most recent preceding item of indent N - 1, or inside a
\* synthesized empty stub item when a deeper level appears without such a
\* parent, so that no nesting level is skipped, also when the indents drop
\* back and then jump deeper again.
C4_IncreasingIndentNestsStrictly ==
    /\ (richPc # "in" /\ IsQuillHtml(richIn)) =>
           NestsIn(richOut, InputDepths(richIn))
    /\ (bsPc # "in" /\ has_indent_class(richIn.s)) =>
           NestsIn(bsOut, InputDepths(richIn))

\* C5: normalizing the output of a normalization returns it unchanged,
\* whatever the input (Delta, Quill HTML, plain HTML) and the text of its
\* items, for to_semantic_html and for normalize_quill_lists.
C5_NormalizeIdempotent ==
    /\ richPc = "twice" => richOut2 = richOut
    /\ bsPc = "twice" => bsOut2 = bsOut

\* the block sequence of an HTML string: one block per <p> and per <li>, a
\* list item's indent being the number of lists around its own list
Block(type, indent, text) == [type |-> type, indent |-> indent, text |-> text]

RECURSIVE BlocksOf(_, _, _, _, _)
BlocksOf(html, i, lists, cur, acc) ==
    LET flushed == IF cur = <<>> THEN acc ELSE Append(acc, cur[1])
    IN  IF i > Len(html) THEN flushed
        ELSE LET t == html[i]
             IN  IF t.k \in {"ul", "ol"}
                 THEN BlocksOf(html, i + 1, Append(lists, t.k), <<>>, flushed)
                 ELSE IF t.k \in {"/ul", "/ol"}
                 THEN BlocksOf(html, i + 1,
                               SubSeq(lists, 1, Max2(0, Len(lists) - 1)), <<>>, flushed)
                 ELSE IF t.k = "li"
                 THEN BlocksOf(html, i + 1, lists,
                               <<Block(IF lists # <<>> /\ Last(lists) = "ol"
                                       THEN "ordered" ELSE "bullet",
                                       Max2(0, Len(lists) - 1) + Max2(0, t.d),
                                       <<>>)>>,
                               flushed)
                 ELSE IF t.k = "p"
                 THEN BlocksOf(html, i + 1, lists, <<Block("paragraph", 0, <<>>)>>, flushed)
                 ELSE IF t.k \in {"/li", "/p"}
                 THEN BlocksOf(html, i + 1, lists, <<>>, flushed)
                 ELSE IF IsTag(t) \/ t.k = "nl" \/ cur = <<>>
                 THEN BlocksOf(html, i + 1, lists, cur, acc)
                 ELSE BlocksOf(html, i + 1, lists,
                               <<[cur[1] EXCEPT !.text = Append(cur[1].text, t)]>>, acc)

Blocks(html) == BlocksOf(html, 1, <<>>, <<>>, <<>>)

\* a Delta all of whose ops are one line of text ended by its newline and
\* carrying a list attribute
IsListDelta(v) ==
    /\ v.t = "delta"
    /\ \A i \in 1..Len(v.ops) :
          /\ v.ops[i].attributes.list \in {"bullet", "ordered"}
          /\ Len(v.ops[i].insert) = 2
          /\ v.ops[i].insert[1].k = "txt"
          /\ v.ops[i].insert[2] = NL

ListBlocks(ops) ==
    [i \in 1..Len(ops) |->
        Block(ops[i].attributes.list, ops[i].attributes.indent,
              <<ops[i].insert[1]>>)]

\* C6: every line of a Delta whose terminating op carries list=bullet or
\* list=ordered becomes a list item of that kind at that op's indent, in
\* both Delta converters; the Delta with lines 'A' (bullet) and 'A.1'
\* (bullet, indent 1) gives the blocks [bullet/0/'A', bullet/1/'A.1'].
C6_DeltaLinesBecomeListItems ==
    IsListDelta(richIn) =>
        /\ richPc # "in" => Blocks(richOut) = ListBlocks(richIn.ops)
        /\ q2wPc = "done" => Blocks(q2wOut) = ListBlocks(richIn.ops)

\* ---------------------------------------------- claims: sanitizer, renderer
\* the key that reaches item i of a list
IndexKey(i) == IF i = 1 THEN "0" ELSE "1"

\* the string leaves of a context: `path` is the dotted path the sanitizer
\* builds for the leaf (the items of a list have the path of the list),
\* `route` the keys and indexes that reach it
RECURSIVE StringLeaves(_, _, _)
StringLeaves(obj, path, route) ==
    IF obj.t = "dict"
    THEN UNION { StringLeaves(obj.m[k], Append(path, k), Append(route, k)) :
                    k \in DOMAIN obj.m }
    ELSE IF obj.t = "list"
    THEN UNION { StringLeaves(obj.m[i], path, Append(route, IndexKey(i))) :
                    i \in DOMAIN obj.m }
    ELSE IF obj.t = "str" THEN {[path |-> path, route |-> route, value |-> obj]}
    ELSE {}

\* the node of a tree at a dotted path; Undefined when the path leaves it
RECURSIVE Lookup(_, _)
Lookup(obj, path) ==
    IF path = <<>> THEN obj
    ELSE IF obj.t = "dict" /\ Head(path) \in DOMAIN obj.m
    THEN Lookup(obj.m[Head(path)], Tail(path))
    ELSE IF obj.t = "list" /\ IsInteger(Head(path)) /\ IndexOf(Head(path)) \in DOMAIN obj.m
    THEN Lookup(obj.m[IndexOf(Head(path))], Tail(path))
    ELSE Undefined(Head(path))

NoMarkup(s) == \A i \in 1..Len(s) : ~IsTag(s[i])

\* a string leaf that is neither allow-listed nor heuristically rich
IsPlainField(leaf) ==
    /\ dotted_lower(leaf.path) \notin EXCEPTION_HTML_FIELDS
    /\ ~looks_like_html_list(leaf.value)

\* C2: every leaf string whose dotted path is not in the allow-list and
\* which is not heuristically rich is handed to the template renderer as a
\* plain string that holds no markup, whatever the shape of the context.
C2_PlainFieldsAreHandedOverSanitized ==
    rdPc \in {"transformed", "rendered", "raised_render"} =>
        \A leaf \in StringLeaves(rdContext, <<>>, <<>>) :
            IsPlainField(leaf) =>
                /\ Lookup(context_for_tpl, leaf.route).t = "str"
                /\ NoMarkup(Lookup(context_for_tpl, leaf.route).v)

\* the placeholder names a path the context does not hold
PlaceholderIsAbsent == Lookup(rdContext, placeholder).t = "undefined"

\* C10: a placeholder that refers to an absent context path, at whatever
\* depth its first missing segment is, never makes the render raise and is
\* shown in the output as a visible bracketed token.
C10_AbsentPlaceholderStaysVisible ==
    (rdPc \in {"rendered", "raised_render"} /\ PlaceholderIsAbsent) =>
        /\ rdPc = "rendered"
        /\ rendered.kind = "placeholder"


\* no key on the way to the leaf, the leaf's own included, is allow-listed
NoAllowListedPrefix(path) ==
    \A i \in 1..Len(path) : dotted_lower(SubSeq(path, 1, i)) \notin EXCEPTION_HTML_FIELDS

\* the text with <br> and the closing tags of blocks turned into newlines
\* and then every tag removed
LineBreakingTags == {"br", "/p", "/li", "/ul", "/ol"}
breaks_to_newlines(text) ==
    [i \in 1..Len(text) |-> IF text[i].k \in LineBreakingTags THEN NL ELSE text[i]]
text_with_line_breaks(text) == strip_markup(breaks_to_newlines(text))

\* C15: sanitize_except_exceptions returns a string that is not under the
\* allow-list as its text without tags, a newline standing where a <br> or
\* the closing tag of a block stood ('<b>Hello</b><br>World' gives
\* 'Hello\nWorld'), and returns a string at an allow-listed path as it was.
C15_SanitizeKeepsLineBreaks ==
    rdPc \notin {"off", "start"} =>
        \A leaf \in StringLeaves(rdContext, <<>>, <<>>) :
            IF dotted_lower(leaf.path) \in EXCEPTION_HTML_FIELDS
            THEN Lookup(sanitized_context, leaf.route) = leaf.value
            ELSE NoAllowListedPrefix(leaf.path) =>
                    Lookup(sanitized_context, leaf.route)
                        = Str(text_with_line_breaks(leaf.value.v))

\* C16: a string that is not under the allow-list and holds a list tag
\* (<ul, <ol or <li) reaches the template as a subdocument.
C16_ListMarkupOutsideAllowListIsRich ==
    rdPc \in {"transformed", "rendered", "raised_render"} =>
        \A leaf \in StringLeaves(rdContext, <<>>, <<>>) :
            (NoAllowListedPrefix(leaf.path) /\ looks_like_html_list(leaf.value))
                => Lookup(context_for_tpl, leaf.route).t = "subdoc"
\* ------------------------------------------------------- claims: list styles
\* base_level of the insertion point: the anchor's numbering level, one-based;
\* 1 when there is no anchor or it carries no level
base_level == IF anchor_level >= 0 THEN anchor_level + 1 ELSE 1

clamp(x, lo, hi) == Max2(lo, Min2(hi, x))

\* the name the style of index n has: index 1 is the bare base name
StyleNamed(kind, n) ==
    Style(IF kind = "number" THEN "List Number" ELSE "List Bullet", IF n = 1 THEN 0 ELSE n)

\* C7: every list paragraph, bullet or ordered, whatever the base level and
\* its indent, gets the style of index clamp(base_level + indent, 1, 9),
\* named "List Bullet <n>" / "List Number <n>" with index 1 as the bare
\* base name, and a clamp to 9 leaves a warning in the log.
C7_ListStyleIndexIsClampedSum ==
    shimPc = "done" =>
        \A i \in DOMAIN shimParas :
            LET p == shimParas[i]
            IN  (p.numbered /\ p.ilvl >= 0) =>
                    /\ p.style = StyleNamed(paragraph_kind(p),
                                            clamp(base_level + p.ilvl, 1, 9))
                    /\ (base_level + p.ilvl > 9 => "warning" \in shimLog)

(***************************************************************************)
(* Claims about render_document at the level of files                      *)
(***************************************************************************)
IsPrefix(s, t) == Len(s) <= Len(t) /\ SubSeq(t, 1, Len(s)) = s
Announced(h, phase) == \E i \in 1..Len(runStatus[h]) : runStatus[h][i] = phase
FivePhases == <<"sanitize", "subdoc", "render", "images", "final">>
IsFivePhase(p) == p \in {"sanitize", "subdoc", "render", "images", "final"}
InResolver(h) == runPc[h] \in {"img_loop", "img_changed", "img_writing", "img_cleanup"}
InFinalWrite(h) ==
    runPc[h] \in {"final_loaded", "final_writing", "atomic_save", "atomic_copy",
                  "atomic_writing", "done"}

C12_PackageReplacementIsAtomic ==
    \A h \in Handlers :
        /\ (runPc[h] = "crashed" /\ runCrashedAt[h] = "img_writing")
              => temp_rendered.state # "partial"
        /\ (runPc[h] = "crashed" /\ runCrashedAt[h] \in {"final_writing", "atomic_writing"})
              => runOutput[h].state # "partial"

\* C13: when render_document has ended, by returning or by raising, the
\* resolver's scratch directory is gone and so is the intermediate file the
\* run wrote.
C13_ScratchAndIntermediateAreRemoved ==
    \A h \in Handlers :
        runPc[h] \in {"done", "raised"}
            => /\ ~runWorkdir[h]
               /\ ~(temp_rendered.state # "absent" /\ temp_rendered.pkg.from = h)

\* C14: with two runs of render_document overlapping, the resolver of a run
\* unzips the package of its own render, and the output of a finished run
\* is the package of its own render.
C14_RunsOwnTheirIntermediateFile ==
    \A h \in Handlers :
        /\ InResolver(h) => runUnzipped[h].from = h
        /\ runPc[h] = "done" => runOutput[h] \in {Complete(Pkg(h, FALSE)), Complete(Pkg(h, TRUE))}


ImagePhaseAborted(h) ==
    runPc[h] = "raised" /\ Announced(h, "images") /\ ~Announced(h, "final")

Abs(x) == IF x < 0 THEN -x ELSE x

\* C17: for an image of positive pixel dimensions sized under an entry of
\* the size policy, the width and the height in mm, and in EMU, do not
\* exceed the entry's maxima; the width and the height in mm are in the
\* proportion of the pixel width and height, and in EMU they are so up to
\* the half unit by which each was rounded.
C17_SizeWithinLimitsAspectKept ==
    LET w_px == szPx[1]
        h_px == szPx[2]
    IN  szKey \in DOMAIN IMAGE_SIZE_LIMITS =>
            /\ szPc \in {"scaled", "done"} =>
                  /\ RatMul(szMm[1], Rat(h_px, 1)) = RatMul(szMm[2], Rat(w_px, 1))
                  /\ RatLe(szMm[1], IMAGE_SIZE_LIMITS[szKey][1])
                  /\ RatLe(szMm[2], IMAGE_SIZE_LIMITS[szKey][2])
            /\ szPc = "done" =>
                  /\ 2 * Abs(szEmu[1] * h_px - szEmu[2] * w_px) <= h_px + w_px
                  /\ szEmu[1] <= emu_from_mm(IMAGE_SIZE_LIMITS[szKey][1])
                  /\ szEmu[2] <= emu_from_mm(IMAGE_SIZE_LIMITS[szKey][2])

\* a tall image under the logo's limits: the height is what binds, it is
\* rendered at the full 45.72 mm, and the width was rounded
C17_Witness ==
    /\ szPc = "done"
    /\ szKey = "customercontact.logo"
    /\ szPx[1] < szPx[2]
    /\ szMm[2] = Rat(4572, 100)
    /\ szEmu[2] = 1645920
    /\ szMm[1].d * szEmu[1] # szMm[1].n * 36000
(***************************************************************************)
(* Claims about flattening                                                 *)
(***************************************************************************)
\* d1 == d2 of two dicts: the same keys with equal values, in any order
RECURSIVE DictEq(_, _)
DictEq(a, b) ==
    IF a.t = "dict" /\ b.t = "dict"
    THEN /\ {a.items[i].k : i \in 1..Len(a.items)} = {b.items[i].k : i \in 1..Len(b.items)}
         /\ \A i \in 1..Len(a.items) :
               DictEq(a.items[i].val, od_get(b.items, a.items[i].k))
    ELSE a = b

\* every field has a row, no field name holds a dot, no field is named 'data'
WellFormedGroups(d) ==
    \A i \in 1..Len(d.items) :
        /\ d.items[i].val.items # <<>>
        /\ Len(d.items[i].k) = 1
        /\ d.items[i].k # <<"data">>

expected_base(p) ==
    IF p.style.family \in {"List Bullet", "List Number"} /\ p.style.n > 0
    THEN p.style.n
    ELSE IF p.ilvl # NoIlvl THEN p.ilvl + 1
    ELSE 1

\* C20: the level found for the placeholder of a template paragraph is the
\* numeral N its 'List Bullet N' or 'List Number N' style ends with, else
\* ilvl + 1 when the paragraph has a numbering level, else 1; and it is the
\* level reported for the placeholder's key when no earlier paragraph holds
\* the same key.
C20_BaseLevelFromStyleThenIlvlThenOne ==
    /\ \A i \in 1..Len(lvDetails) :
          lvDetails[i].list_bullet_level = expected_base(lvTemplate[i])
    /\ lvPc = "probed" =>
          \A i \in 1..Len(lvTemplate) :
              (\A j \in 1..(i - 1) : lvTemplate[j].key # lvTemplate[i].key)
                  => [key |-> lvTemplate[i].key, level |-> expected_base(lvTemplate[i])]
                         \in lvLevels
(***************************************************************************)
(* CLAIMS ABOUT THE PAGINATION PASS                                        *)
(***************************************************************************)
LastPass == pgLog[Len(pgLog)]

\* C21: as long as no com_error was raised, a pass inserts at most one page
\* break and scans no further once it has inserted it; every pass that was
\* followed by another one inserted a break, a pass is under way only after
\* a pass that inserted one, and the loop has ended only after a pass that
\* inserted none.
C21_OneBreakPerPassNextPassIffInserted ==
    pgPc # "off" /\ pgErrors = 0 =>
        /\ pgInserted <= 1
        /\ (pgPc = "scan" => pgInserted = 0)
        /\ \A k \in 1..Len(pgLog) : pgLog[k].inserted <= 1
        /\ \A k \in 1..(Len(pgLog) - 1) : pgLog[k].inserted = 1
        /\ (pgPc \in {"open", "scan", "save"} /\ pgLog # <<>> => LastPass.inserted = 1)
        /\ (pgPc = "done" => pgLog # <<>> /\ LastPass.inserted = 0)

\* a run without com_error that inserted one break, then found nothing more
\* to fix well before the page cap
C21_Witness ==
    /\ pgPc = "done"
    /\ pgErrors = 0
    /\ Len(pgLog) = 2
    /\ pgLog[1].inserted = 1
    /\ Len(pgDisk) > 1
    /\ \A k \in 1..Len(pgDisk) : Layout(pgDisk)[k].page <= 2

C23_ComErrorIsRetriedOrRaised ==
    pgPc = "done" => ~LastPass.failed

(***************************************************************************)
(* CLAIMS ABOUT THE CONNECTION POOL                                        *)
(***************************************************************************)
Holders == { t \in Threads : plPc[t] = "holding" }
Quiescent == \A t \in Threads : plPc[t] \in {"idle", "holding"}

\* C28: whenever no thread is inside get_connection or release_connection,
\* the permits left in the semaphore are max_connections minus the number
\* of connections handed out and not yet released.
C28_PermitsAreCapacityMinusHeld ==
    plClosing # "off" /\ Quiescent =>
        connection_semaphore = max_connections - Cardinality(Holders)

\* C29: under every interleaving of get_connection, release_connection and
\* close_all_connections, no connection is in the hands of two threads, the
\* pool lists at most max_connections connections, at most max_connections
\* threads hold one, and at most max_connections connections are open.
OpenConnections ==
    { c \in 1..plCreated :
        c \notin plClosed /\ (InList(c) \/ \E t \in Threads : plHeld[t] = c) }

C29_NoSharedConnectionAtMostMax ==
    /\ \A t, u \in Threads : t # u /\ plHeld[t] # NoConn => plHeld[t] # plHeld[u]
    /\ Len(connections) <= max_connections
    /\ Cardinality(Holders) <= max_connections
    /\ Cardinality(OpenConnections) <= max_connections

\* every permit is out: max_connections threads hold different
\* connections, and a further thread was refused
C29_Witness ==
    /\ Cardinality(Holders) = max_connections
    /\ connections # <<>>
    /\ \E t \in Threads : plPc[t] = "refused"
    /\ \E t \in Holders : plHeld[t] # connections[1] /\ InList(plHeld[t])
    /\ \E t \in Holders : plHeld[t] = connections[1]

(***************************************************************************)
(* CLAIMS ABOUT THE QUOTE                                                  *)
(***************************************************************************)
\* the data.* fields of a dict: the set of (dotted key, value) of its leaves
Fields(d) == SeqToSet(flatten_pairs(d, <<"data">>, 1))

\* C25: after save_quote with type T, open_quote of the file it wrote gives
\* the model a quote with every data.* field the saved quote had, each with
\* the value it had, and reports quote type T.
C25_SaveThenLoadRestoresFieldsAndType ==
    qLast = "open_quote" /\ qSave.saved =>
        /\ Fields(qHeap[first_quote].data) = Fields(qSave.data)
        /\ qHeap[first_quote].quote_type = qSave.quote_type
        /\ qReport.quoteType = qSave.quote_type

\* C26: there is one quote: the Quote the view model reads and writes
\* (set_field, get_field, get_all_fields) is the first Quote of the model,
\* the one save_quote serialises and submit_quote renders.
C26_ViewModelQuoteIsTheModelsFirstQuote ==
    qLast # "off" => quotes # <<>> /\ first_quote = quote

\* C27: submit_quote leaves every stored Quote as it was.
C27_SubmitLeavesStoredQuoteUnchanged ==
    [][qLast' = "submit_quote" => qHeap' = qHeap]_vars


(***************************************************************************)
(* The sync service                                                        *)
(***************************************************************************)
Queued(c) == \E i \in 1..Len(sync_queue) : sync_queue[i] = c

\* C30: while the service is running, also after a start that follows a
\* stop, every change that log_change has queued is in the end taken from
\* the queue and processed by the worker (or the service is stopped first);
\* no termination signal of an earlier stop ends a later worker.
C30_QueuedChangeIsProcessedWhileRunning ==
    \A c \in Changes :
        (running /\ Queued(c)) ~> (syStatus[c] = "COMPLETED" \/ ~running)
====
